---- MODULE Spec2Model ----
(***************************************************************************)
(* A model of the PDF markup editor (static/pdf-editor): the page          *)
(* virtualization cache of pdf-viewer.js, the canonical markup list with   *)
(* its two render backends (annotation-layer.js overlay, fabric-layer.js   *)
(* canvas), the undo/redo manager, the save manager and the context        *)
(* selector.  The browser is single threaded: every action below is one    *)
(* macrotask (an event handler, a timer callback, or the continuation that *)
(* runs when a network response or a render promise settles, together with *)
(* the promise continuations chained on it).                               *)
(***************************************************************************)
EXTENDS Integers, Sequences, FiniteSets, TLC

VARIABLES
  \* pdf-viewer.js
  numPages,      \* state.pdfDoc.numPages
  pageInfos,     \* pageInfos[i]: .rendered, and .dim for .width and .height
  renderTasks,   \* renderPage calls suspended at an await, by page index
  viewTop,       \* first page index intersecting the scroll viewport
  observed,      \* the IntersectionObserver delivered its initial callback
  \* state.js
  markups,       \* state.markups, the canonical list
  undoStack,     \* state.undoStack
  redoStack,     \* state.redoStack
  dirty,         \* state.dirty
  saveStatus,    \* state.saveStatus
  lastSaveError, \* state.lastSaveError
  saveTimeout,   \* the number of pending debounce timers; state.saveTimeout
                 \* is the handle of the one set last
  currentLinked, \* (state.currentLinkedType, state.currentLinkedId)
  linkedOptions, \* state.linkedOptions
  \* the two render backends
  backend,       \* which scripts are loaded: "overlay" or "canvas"
  overlayDom,    \* markups drawn in each page's .page-annotations element
  fabricCanvases,\* fabricCanvases[pageIndex]: the objects of that canvas
  drawingRect,   \* fabric-layer.js drawingRect: the rectangle being dragged
  \* page, server and network
  config,        \* window.__PDF_CONFIG__ scope the page was opened with
  docLinked,     \* the scopes the server has linked to this document
  loadPc,        \* where loadPdf is suspended
  net,           \* requests in flight
  btnDisabled,   \* #btn-save-pdf .disabled
  backPc,        \* the back-link handler: "idle", "polling", or "left" once
                 \* window.location.href was assigned
  scale,         \* state.scale, in hundredths (100 is a scale of 1)
  savedZoom,     \* sessionStorage item 'pdf-zoom-' + docId, in hundredths
  pdfDoc,        \* state.pdfDoc is set
  view,          \* what #pdf-container shows: "loading", "pages", "iframe",
                 \* or "blank" once emptied and not refilled
  rebuilds,      \* renderPdf calls of the zoom buttons suspended at an await
  building,      \* for each of them, in the order they started, the number
                 \* of pages its loop has measured
  pageDimensions,\* pdf-viewer.js pageDimensions, the array the loops fill
  pageSize,      \* the size of each page of the document at scale 1
  isEditMode,    \* state.isEditMode
  popover,       \* the id of the markup the open .comment-popover edits
  server,        \* the list the persistence API holds for each scope
  listScope,     \* the scope whose list state.markups was loaded from
  captured,      \* for each entry of the two stacks, the scope of the
                 \* session when pushUndo, undo or redo captured it
  heap,          \* the arrays and markup objects behind state.markups and
                 \* the two stacks, by reference
  drawingPathPoints,  \* the freehand stroke in progress and its page
                 \* (state.inkPoints and state.inkStrokeEl in the overlay)
  raster,        \* the viewports of the renders in flight and the sizes of
                 \* the canvases installed
  probe,         \* the last call of a markup-tools.js function: its name,
                 \* its arguments and what it returned
  hist           \* history of the run, for stating the claims: the last
                 \* step (op), the list before the create/delete operations
                 \* made since the last undo, redo or edit (base), their
                 \* number (n), and whether the list was mutated after the
                 \* last PUT /markups was sent (since), and the message
                 \* the promise of performSavePdf last rejected with (thrown)

cacheVars == <<numPages, pageInfos, renderTasks, viewTop, observed>>
docVars == <<markups, undoStack, redoStack>>
saveVars == <<dirty, saveStatus, lastSaveError, saveTimeout>>
scopeVars == <<currentLinked, linkedOptions, config, docLinked, loadPc>>
backendVars == <<backend, overlayDom, fabricCanvases, drawingRect>>
netVars == <<net, btnDisabled, backPc>>
viewVars == <<scale, savedZoom, pdfDoc, view, rebuilds, building,
              pageDimensions, pageSize>>
modeVars == <<isEditMode, popover>>
extVars == <<isEditMode, popover, server, listScope, captured, heap,
             drawingPathPoints, raster>>
buildVars == <<building, pageDimensions, pageSize, extVars>>
zoomVars == <<scale, savedZoom, pdfDoc, view, rebuilds, buildVars>>
vars == <<cacheVars, docVars, saveVars, scopeVars, backendVars, netVars,
          zoomVars, probe, hist>>

----------------------------------------------------------------------------
(* Bounds of the model and constants of the program.                       *)

PAGE_CACHE_SIZE == 15
FarAway == 9999
CacheDocPages == 17
ViewportPages == 2
MaxInFlight == 2

NoPage == -1
Null == "null"


\* state.scale and the zoom buttons, in hundredths
DefaultScale == 100
MinScale == 50
MaxScale == 300
ZoomStep == 25
MaxRebuilds == 2
BuildDocPages == 2

Max2(a, b) == IF a >= b THEN a ELSE b
Min2(a, b) == IF a <= b THEN a ELSE b

RECURSIVE SeqMin(_)
SeqMin(s) == IF Len(s) = 1 THEN s[1] ELSE Min2(s[1], SeqMin(Tail(s)))

RECURSIVE SeqMax(_)
SeqMax(s) == IF Len(s) = 1 THEN s[1] ELSE Max2(s[1], SeqMax(Tail(s)))

InSeq(x, s) == \E i \in 1..Len(s) : s[i] = x

RECURSIVE SumOver(_, _)
SumOver(f, S) ==
  IF S = {} THEN 0
  ELSE LET x == CHOOSE y \in S : TRUE IN f[x] + SumOver(f, S \ {x})

----------------------------------------------------------------------------
(* markup-tools.js: the pure functions.                                    *)

MaxLen == 4
MaxPts == 5
Points == {"p", "q"}
Undefined == "undefined"

\* Math.round of the non-negative quotient n / d: the nearest integer, a
\* half rounded up.
RoundDiv(n, d) == (2 * n + d) \div (2 * d)

\* A call that returns all its points, whatever the target count.
DecimateKeepAll(pts, maxPts) == pts

\* decimatePoints(pts, maxPts).  A list within the target is returned as
\* it is.  Otherwise the loop pushes one element for each i < maxPts, the
\* one at index round(i * step) with step = (length - 1) / (maxPts - 1);
\* for maxPts = 1 the step is Infinity, 0 * Infinity is NaN and pts[NaN]
\* is undefined.  Indices are JavaScript's, from 0.
DecimatePoints(pts, maxPts) ==
  IF Len(pts) <= maxPts THEN pts
  ELSE [k \in 1..Max2(maxPts, 0) |->
          IF maxPts = 1 THEN Undefined
          ELSE LET idx == Min2(RoundDiv((k - 1) * (Len(pts) - 1), maxPts - 1),
                               Len(pts) - 1)
               IN pts[idx + 1]]

\* JavaScript numbers are IEEE 754 doubles: zero, an infinity, NaN, or a
\* finite number with a sign, Precision significant
\* bits (most significant first, the first one set) and the exponent of the
\* last bit; zero has no bits.  Dividing by zero gives an infinity, or NaN
\* for 0 / 0; an infinity times zero is NaN.  Results are rounded to the
\* nearest double, a tie to the one whose last bit is 0.
Precision == 53
Limb == 13
MaxPixel == 3
PageSizes == {0, 7, 49, 612}

Zero == [kind |-> "zero", neg |-> FALSE, m |-> <<>>, e |-> 0]
Infinity == [kind |-> "infinity", neg |-> FALSE, m |-> <<>>, e |-> 0]
NaN == [kind |-> "NaN", neg |-> FALSE, m |-> <<>>, e |-> 0]
Finite(neg, m, e) == [kind |-> "finite", neg |-> neg, m |-> m, e |-> e]

Abs(n) == IF n < 0 THEN -n ELSE n

Last(s) == s[Len(s)]
Front(s) == SubSeq(s, 1, Len(s) - 1)

RECURSIVE Pow2(_)
Pow2(k) == IF k = 0 THEN 1 ELSE 2 * Pow2(k - 1)

RECURSIVE Bits(_)
Bits(n) == IF n = 0 THEN <<>> ELSE Append(Bits(n \div 2), n % 2)

\* the bits of the next integer: the last 0 becomes 1 and the 1s after it 0
IncBits(b) ==
  LET zeros == {i \in 1..Len(b) : b[i] = 0}
      j == IF zeros = {} THEN 0
           ELSE CHOOSE i \in zeros : \A k \in zeros : k <= i
  IN IF j = 0 THEN <<1>> \o [i \in 1..Len(b) |-> 0]
     ELSE [i \in 1..Len(b) |-> IF i < j THEN b[i] ELSE IF i = j THEN 1 ELSE 0]

\* The double nearest to the number whose leading bits are `bits`, the last
\* of them of exponent e, followed by something that is not zero iff sticky.
RoundBits(neg, bits, e, sticky) ==
  IF Len(bits) <= Precision
  THEN Finite(neg, bits \o [i \in 1..(Precision - Len(bits)) |-> 0],
              e - (Precision - Len(bits)))
  ELSE LET keep == SubSeq(bits, 1, Precision)
           rest == sticky \/ \E i \in (Precision + 2)..Len(bits) : bits[i] = 1
           up == bits[Precision + 1] = 1 /\ (rest \/ keep[Precision] = 1)
           inc == IncBits(keep)
           e1 == e + (Len(bits) - Precision)
       IN IF ~up THEN Finite(neg, keep, e1)
          ELSE IF Len(inc) = Precision THEN Finite(neg, inc, e1)
          ELSE Finite(neg, SubSeq(inc, 1, Precision), e1 + 1)

\* the double of a small integer
FromInt(n) == IF n = 0 THEN Zero ELSE RoundBits(n < 0, Bits(Abs(n)), 0, FALSE)

\* the integer of a few bits, and the w bits of an integer below 2^w
RECURSIVE BitsValue(_)
BitsValue(b) == IF b = <<>> THEN 0 ELSE 2 * BitsValue(Front(b)) + Last(b)

PadBits(n, w) == [i \in 1..w |-> (n \div Pow2(w - i)) % 2]

\* k further quotient bits of the long division by d, from remainder r < d,
\* and the remainder after them; Limb bits at a time
RECURSIVE LongDiv(_, _, _)
LongDiv(r, d, k) ==
  IF k <= Limb
  THEN [bits |-> PadBits((r * Pow2(k)) \div d, k), rem |-> (r * Pow2(k)) % d]
  ELSE LET a == LongDiv(r, d, Limb)
           b == LongDiv(a.rem, d, k - Limb)
       IN [bits |-> a.bits \o b.bits, rem |-> b.rem]

\* the t with 2^t <= n / d < 2^(t+1), for n, d > 0
RECURSIVE Log2Quot(_, _)
Log2Quot(n, d) ==
  IF n < d THEN Log2Quot(2 * n, d) - 1
  ELSE IF n >= 2 * d THEN Log2Quot(n, 2 * d) + 1
  ELSE 0

\* n / d for small integers n and d, as JavaScript computes it
FDiv(n, d) ==
  IF d = 0 THEN (IF n = 0 THEN NaN ELSE [Infinity EXCEPT !.neg = n < 0])
  ELSE IF n = 0 THEN Zero
  ELSE LET t == Log2Quot(Abs(n), Abs(d))
           nn == IF t < 0 THEN Abs(n) * Pow2(-t) ELSE Abs(n)
           dd == IF t > 0 THEN Abs(d) * Pow2(t) ELSE Abs(d)
           q == LongDiv(nn - dd, dd, Precision)
       IN RoundBits((n < 0) # (d < 0), <<1>> \o q.bits, t - Precision,
                    q.rem # 0)

\* (the integer of the bits b) * k + c: its last Len(b) bits and the carry
\* out of them; Limb bits at a time, from the last
RECURSIVE MulBits(_, _, _)
MulBits(b, k, c) ==
  IF Len(b) <= Limb
  THEN LET v == BitsValue(b) * k + c
       IN [bits |-> PadBits(v % Pow2(Len(b)), Len(b)),
           carry |-> v \div Pow2(Len(b))]
  ELSE LET lo == MulBits(SubSeq(b, Len(b) - Limb + 1, Len(b)), k, c)
           hi == MulBits(SubSeq(b, 1, Len(b) - Limb), k, lo.carry)
       IN [bits |-> hi.bits \o lo.bits, carry |-> hi.carry]

\* a bit sequence without its leading zeros
Strip(b) ==
  LET ones == {i \in 1..Len(b) : b[i] = 1}
  IN IF ones = {} THEN <<>>
     ELSE SubSeq(b, CHOOSE i \in ones : \A k \in ones : i <= k, Len(b))

\* f * k for a double f and a small integer k >= 0
FMul(f, k) ==
  IF f.kind = "NaN" THEN NaN
  ELSE IF f.kind = "infinity" THEN (IF k = 0 THEN NaN ELSE f)
  ELSE IF f.kind = "zero" \/ k = 0 THEN Zero
  ELSE LET p == MulBits(f.m, k, 0)
       IN RoundBits(f.neg, Strip(Bits(p.carry) \o p.bits), f.e, FALSE)

\* the next double away from zero
Succ(f) ==
  LET inc == IncBits(f.m)
  IN IF Len(inc) = Precision THEN [f EXCEPT !.m = inc]
     ELSE [f EXCEPT !.m = SubSeq(inc, 1, Precision), !.e = @ + 1]

\* equal up to one unit in the last place
Near(a, b) ==
  \/ a = b
  \/ /\ a.kind = "finite" /\ b.kind = "finite"
     /\ (a = Succ(b) \/ b = Succ(a))

\* A normalization that divides everything by the page width.
NormalizeByWidth(x, y, w, h, pageWidth, pageHeight) ==
  [x |-> FDiv(x, pageWidth), y |-> FDiv(y, pageWidth),
   width |-> FDiv(w, pageWidth), height |-> FDiv(h, pageWidth)]

\* normalizeBounds(x, y, w, h, pageWidth, pageHeight)
NormalizeBounds(x, y, w, h, pageWidth, pageHeight) ==
  [x |-> FDiv(x, pageWidth), y |-> FDiv(y, pageHeight),
   width |-> FDiv(w, pageWidth), height |-> FDiv(h, pageHeight)]

\* bounds re-expanded by a page size
Expand(b, pageWidth, pageHeight) ==
  [x |-> FMul(b.x, pageWidth), y |-> FMul(b.y, pageHeight),
   width |-> FMul(b.width, pageWidth), height |-> FMul(b.height, pageHeight)]

NoCall == [fn |-> "none", args |-> <<>>, out |-> <<>>, done |-> FALSE]

Call(fn, args) == [fn |-> fn, args |-> args, out |-> <<>>, done |-> FALSE]

PointSeqs == UNION {[1..n -> Points] : n \in 0..MaxLen}

\* A caller applies normalizeBounds to the arguments it was handed.
NormalizeCall ==
  /\ probe.fn = "normalizeBounds" /\ ~probe.done
  /\ LET a == probe.args
     IN probe' = [probe EXCEPT
                    !.out = NormalizeBounds(a[1], a[2], a[3], a[4], a[5], a[6]),
                    !.done = TRUE]
  /\ hist' = [hist EXCEPT !.op = "normalizeBounds"]
  /\ UNCHANGED <<cacheVars, docVars, saveVars, scopeVars, backendVars,
                 netVars, zoomVars>>

\* A caller applies decimatePoints to the arguments it was handed.
DecimateCall ==
  /\ probe.fn = "decimatePoints" /\ ~probe.done
  /\ probe' = [probe EXCEPT !.out = DecimatePoints(probe.args[1], probe.args[2]),
                            !.done = TRUE]
  /\ hist' = [hist EXCEPT !.op = "decimatePoints"]
  /\ UNCHANGED <<cacheVars, docVars, saveVars, scopeVars, backendVars,
                 netVars, zoomVars>>

\* What parseFloat makes of the stored zoom of earlier sessions of the tab:
\* no item, a string that is no number (NaN), or a number.
NoItem == [set |-> FALSE, num |-> FALSE, v |-> 0]
NotANumber == [set |-> TRUE, num |-> FALSE, v |-> 0]
Stored(v) == [set |-> TRUE, num |-> TRUE, v |-> v]
SavedZooms ==
  {NoItem, NotANumber} \cup {Stored(v) : v \in {25, 50, 60, 250, 300, 325}}

\* A restore that takes any stored number.
RestoreAny(cur, saved) == IF saved.set /\ saved.num THEN saved.v ELSE cur

\* loadPdf: if (saved) { s = parseFloat(saved); if (s >= 0.5 && s <= 3)
\* state.scale = s }.  Every comparison with NaN is false.
RestoreZoom(cur, saved) ==
  IF saved.set /\ saved.num /\ saved.v >= MinScale /\ saved.v <= MaxScale
  THEN saved.v
  ELSE cur

----------------------------------------------------------------------------
(* pdf-viewer.js: page virtualization.                                     *)

PageIndexSeq(n) == [i \in 1..n |-> i - 1]

GetRenderedPageIndices(infos) ==
  SelectSeq(PageIndexSeq(Len(infos)), LAMBDA idx : infos[idx + 1].rendered)

RECURSIVE EvictScan(_, _, _, _, _, _)
EvictScan(rendered, visibleSet, minVisible, maxVisible, furthest, maxDist) ==
  IF rendered = <<>> THEN furthest
  ELSE LET idx == Head(rendered)
           dist == Min2(IF idx < minVisible THEN minVisible - idx ELSE FarAway,
                        IF idx > maxVisible THEN idx - maxVisible ELSE FarAway)
       IN IF InSeq(idx, visibleSet)
          THEN EvictScan(Tail(rendered), visibleSet, minVisible, maxVisible,
                         furthest, maxDist)
          ELSE IF dist > maxDist
          THEN EvictScan(Tail(rendered), visibleSet, minVisible, maxVisible,
                         idx, dist)
          ELSE EvictScan(Tail(rendered), visibleSet, minVisible, maxVisible,
                         furthest, maxDist)

\* A choice among all pages, rendered or not.
EvictFurthestOfAll(infos, visibleSet) ==
  EvictScan(PageIndexSeq(Len(infos)), visibleSet, SeqMin(visibleSet),
            SeqMax(visibleSet), NoPage, -1)

EvictFurthestFromVisible(infos, visibleSet) ==
  LET rendered == GetRenderedPageIndices(infos)
  IN IF Len(rendered) < PAGE_CACHE_SIZE THEN NoPage
     ELSE EvictScan(rendered, visibleSet, SeqMin(visibleSet),
                    SeqMax(visibleSet), NoPage, -1)

EvictPage(infos, pageIndex) ==
  IF pageIndex = NoPage \/ ~infos[pageIndex + 1].rendered THEN infos
  ELSE [infos EXCEPT ![pageIndex + 1].rendered = FALSE]

\* renderPage up to its first await: the page to give up is chosen and evicted.
RenderPageStart(infos, pageIndex) ==
  LET visibleSet == Append(GetRenderedPageIndices(infos), pageIndex)
  IN EvictPage(infos, EvictFurthestFromVisible(infos, visibleSet))

\* onIntersection: renderPage for every intersecting page that is not rendered.
RECURSIVE OnIntersectionInfos(_, _)
OnIntersectionInfos(infos, visible) ==
  IF visible = <<>> THEN infos
  ELSE LET idx == Head(visible)
       IN IF idx + 1 \in DOMAIN infos /\ ~infos[idx + 1].rendered
          THEN OnIntersectionInfos(RenderPageStart(infos, idx), Tail(visible))
          ELSE OnIntersectionInfos(infos, Tail(visible))

RECURSIVE OnIntersectionTasks(_, _, _)
OnIntersectionTasks(infos, tasks, visible) ==
  IF visible = <<>> THEN tasks
  ELSE LET idx == Head(visible)
       IN IF idx + 1 \in DOMAIN infos /\ ~infos[idx + 1].rendered
          THEN OnIntersectionTasks(RenderPageStart(infos, idx),
                                   [tasks EXCEPT ![idx] = @ + 1], Tail(visible))
          ELSE OnIntersectionTasks(infos, tasks, Tail(visible))

\* The page sizes of a document: letter pages, upright or on their side.
Boxes == {"portrait", "landscape"}

\* page.getViewport({scale}): the width and height of page i (from 1) at a
\* scale, kept as the pair they are the product of.
Viewport(sizes, i, s) == [box |-> sizes[i], scale |-> s]

\* The descriptors buildPageStructure pushes: one for each of the first n
\* entries of the dimensions, with a placeholder of that size.
Placeholders(dims, n) ==
  [j \in 1..n |-> [rendered |-> FALSE, dim |-> dims[j]]]

\* The dimensions of all pages at a scale
Measured(sizes, n, s) == [i \in 1..n |-> Viewport(sizes, i, s)]

Window(top) ==
  SelectSeq(PageIndexSeq(numPages),
            LAMBDA idx : idx >= top /\ idx < top + ViewportPages)

TasksInFlight(tasks) == SumOver(tasks, DOMAIN tasks)

----------------------------------------------------------------------------
(* The markup records and the two render backends.  A markup carries its   *)
(* id, page and type, the colour of a highlight and the text of a comment. *)

DefaultHighlight == "#ffeb3b"
Red == "#dc2626"
CommentFill == "#8b5cf6"

Markup(id, page, type, color, text) ==
  [id |-> id, page |-> page, type |-> type, color |-> color, text |-> text]

\* annotation-layer.js renderMarkups: every .page-annotations element is
\* redrawn from the canonical list.
RenderMarkups(dom, ms) ==
  [p \in DOMAIN dom |-> SelectSeq(ms, LAMBDA m : m.page = p)]

\* fabric-layer.js markupToFabricObject: the fill of a highlight rectangle is
\* an rgba() string, its stroke the colour; an ink path has the colour as
\* its stroke; an IText has the text, or 'Text' for an empty one, and the
\* colour as its fill; a comment circle keeps the text inside the data
\* option.
MarkupToFabricObject(m) ==
  IF m.type = "highlight"
  THEN [data |-> [id |-> m.id, page |-> m.page, markupType |-> m.type,
                  commentText |-> Null],
        fill |-> [rgba |-> TRUE, hex |-> m.color], stroke |-> m.color,
        commentText |-> Null, text |-> Null]
  ELSE IF m.type = "ink" /\ "points" \in DOMAIN m
  THEN [data |-> [id |-> m.id, page |-> m.page, markupType |-> m.type,
                  commentText |-> Null, points |-> m.points],
        fill |-> [rgba |-> FALSE, hex |-> Null], stroke |-> m.color,
        commentText |-> Null, text |-> Null, path |-> m.points]
  ELSE IF m.type = "ink"
  THEN [data |-> [id |-> m.id, page |-> m.page, markupType |-> m.type,
                  commentText |-> Null],
        fill |-> [rgba |-> FALSE, hex |-> Null], stroke |-> m.color,
        commentText |-> Null, text |-> Null]
  ELSE IF m.type = "text"
  THEN [data |-> [id |-> m.id, page |-> m.page, markupType |-> m.type,
                  commentText |-> Null],
        fill |-> [rgba |-> FALSE, hex |-> m.color], stroke |-> Null,
        commentText |-> Null, text |-> IF m.text = "" THEN "Text" ELSE m.text]
  ELSE [data |-> [id |-> m.id, page |-> m.page, markupType |-> m.type,
                  commentText |-> m.text],
        fill |-> [rgba |-> FALSE, hex |-> CommentFill], stroke |-> Null,
        commentText |-> Null, text |-> Null]

\* fabric-layer.js objectToMarkup: the points of an ink path are read from
\* the M and L commands of the object's path, from its data option only
\* when the path has fewer than two, and are the two corners of its box
\* when that has fewer than two as well; an rgba fill serializes to the default
\* colour; the comment text is read from the object's own commentText
\* property, which no constructor call sets.
ObjectToMarkup(obj, pageIndex) ==
  IF obj.data.markupType = "highlight"
  THEN Markup(obj.data.id, pageIndex, "highlight",
              IF obj.fill.rgba THEN DefaultHighlight ELSE obj.fill.hex, Null)
  ELSE IF obj.data.markupType = "ink" /\ "path" \in DOMAIN obj
  THEN Markup(obj.data.id, pageIndex, "ink", obj.stroke, Null)
         @@ [points |-> IF Len(obj.path) >= 2 THEN obj.path
                        ELSE IF Len(obj.data.points) >= 2
                        THEN obj.data.points
                        ELSE <<1, 2>>]
  ELSE IF obj.data.markupType = "ink"
  THEN Markup(obj.data.id, pageIndex, "ink", obj.stroke, Null)
  ELSE IF obj.data.markupType = "text"
  THEN Markup(obj.data.id, pageIndex, "text", obj.fill.hex, obj.text)
  ELSE Markup(obj.data.id, pageIndex, "comment", Null,
              IF obj.commentText # Null THEN obj.commentText ELSE "")

SerializePageToMarkups(canvases, pageIndex) ==
  [i \in 1..Len(canvases[pageIndex]) |->
     ObjectToMarkup(canvases[pageIndex][i], pageIndex)]

\* Object.keys(fabricCanvases): integer keys, ascending.
RECURSIVE CanvasPages(_)
CanvasPages(S) ==
  IF S = {} THEN <<>>
  ELSE LET lo == CHOOSE x \in S : \A y \in S : x <= y
       IN <<lo>> \o CanvasPages(S \ {lo})

RECURSIVE SerializeEach(_, _)
SerializeEach(canvases, pages) ==
  IF pages = <<>> THEN <<>>
  ELSE SerializePageToMarkups(canvases, Head(pages))
         \o SerializeEach(canvases, Tail(pages))

SerializeAllFabricToMarkups(ms, canvases) ==
  SelectSeq(ms, LAMBDA m : m.page \notin DOMAIN canvases)
    \o SerializeEach(canvases, CanvasPages(DOMAIN canvases))

\* syncPageToState without its scheduleSave: the page's markups are replaced
\* by the serialized canvas, at the end of the list.
SyncPageToState(ms, canvases, pageIndex) ==
  SelectSeq(ms, LAMBDA m : m.page # pageIndex)
    \o SerializePageToMarkups(canvases, pageIndex)

LoadPageObjects(ms, pageIndex) ==
  LET list == SelectSeq(ms, LAMBDA m : m.page = pageIndex)
  IN [i \in 1..Len(list) |-> MarkupToFabricObject(list[i])]

\* loadMarkupsIntoFabric: every canvas is emptied and rebuilt from the list.
LoadedCanvases(ms, canvases) ==
  [p \in DOMAIN canvases |-> LoadPageObjects(ms, p)]

\* The object:removed and object:added handlers run during that rebuild (the
\* caller has already reset state.isUndoRedo), each calling syncPageToState:
\* after the last event of a page its markups are the serialized canvas.
RECURSIVE LoadEvents(_, _, _, _)
LoadEvents(ms, old, new, pages) ==
  IF pages = <<>> THEN ms
  ELSE LET p == Head(pages)
       IN IF old[p] = <<>> /\ new[p] = <<>>
          THEN LoadEvents(ms, old, new, Tail(pages))
          ELSE LoadEvents(SyncPageToState(ms, new, p), old, new, Tail(pages))

LoadMarkupsIntoFabric(ms, canvases) ==
  LET new == LoadedCanvases(ms, canvases)
  IN [m |-> LoadEvents(ms, canvases, new, CanvasPages(DOMAIN canvases)),
      c |-> new,
      events |-> \E p \in DOMAIN canvases : canvases[p] # <<>> \/ new[p] # <<>>]

----------------------------------------------------------------------------
(* undo-manager.js, in its two versions: the one that reads state.markups  *)
(* (backend "overlay") and the one that serializes the canvases (backend   *)
(* "canvas").  A document state is the record [m, u, r, c] of the list,    *)
(* the two stacks and the canvases.                                        *)


Snapshot(b, ms, canvases) ==
  IF b = "canvas" THEN SerializeAllFabricToMarkups(ms, canvases) ELSE ms

PushUndo(b, st) ==
  [st EXCEPT !.u = Append(st.u, Snapshot(b, st.m, st.c)), !.r = <<>>]

Undo(b, st) ==
  IF st.u = <<>> THEN st
  ELSE LET current == Snapshot(b, st.m, st.c)
           popped == Last(st.u)
           loaded == LoadMarkupsIntoFabric(popped, st.c)
       IN [m |-> IF b = "canvas" THEN loaded.m ELSE popped,
           u |-> Front(st.u),
           r |-> Append(st.r, current),
           c |-> IF b = "canvas" THEN loaded.c ELSE st.c]

Redo(b, st) ==
  IF st.r = <<>> THEN st
  ELSE LET current == Snapshot(b, st.m, st.c)
           popped == Last(st.r)
           loaded == LoadMarkupsIntoFabric(popped, st.c)
       IN [m |-> IF b = "canvas" THEN loaded.m ELSE popped,
           u |-> Append(st.u, current),
           r |-> Front(st.r),
           c |-> IF b = "canvas" THEN loaded.c ELSE st.c]

DocState == [m |-> markups, u |-> undoStack, r |-> redoStack, c |-> fabricCanvases]

----------------------------------------------------------------------------
(* Actions of pdf-viewer.js.                                               *)

Navigated == backPc = "left"

Note(op) == hist' = [hist EXCEPT !.op = op]

\* The observer's callback: renderPage starts for the pages in `visible`; an
\* evicted page loses its overlay element.
OnIntersection(visible) ==
  /\ pageInfos' = OnIntersectionInfos(pageInfos, visible)
  /\ renderTasks' = OnIntersectionTasks(pageInfos, renderTasks, visible)
  /\ TasksInFlight(renderTasks') <= MaxInFlight
  /\ overlayDom' = [p \in {q \in DOMAIN overlayDom : pageInfos'[q + 1].rendered}
                      |-> overlayDom[p]]

ObserveInitial ==
  /\ view = "pages" /\ ~Navigated /\ ~observed
  /\ observed' = TRUE
  /\ OnIntersection(Window(viewTop))
  /\ Note("observe")
  /\ UNCHANGED <<zoomVars, probe, numPages, viewTop, docVars, saveVars, scopeVars, netVars,
                 backend, fabricCanvases, drawingRect>>

Scroll(d) ==
  /\ view = "pages" /\ ~Navigated /\ observed
  /\ viewTop + d \in 0..(numPages - 1)
  /\ viewTop' = viewTop + d
  /\ OnIntersection(SelectSeq(Window(viewTop + d),
                              LAMBDA idx : ~InSeq(idx, Window(viewTop))))
  /\ Note("scroll")
  /\ UNCHANGED <<zoomVars, probe, numPages, observed, docVars, saveVars, scopeVars, netVars,
                 backend, fabricCanvases, drawingRect>>

\* renderPage after its awaits: the canvas and the overlay replace the
\* placeholder, the overlay backend is attached and every overlay redrawn.
RenderPageDone(pageIndex) ==
  /\ ~Navigated
  /\ renderTasks[pageIndex] > 0
  /\ renderTasks' = [renderTasks EXCEPT ![pageIndex] = @ - 1]
  /\ pageInfos' = [pageInfos EXCEPT ![pageIndex + 1].rendered = TRUE]
  /\ overlayDom' = RenderMarkups(
        [p \in DOMAIN overlayDom \cup {pageIndex} |-> <<>>], markups)
  /\ Note("rendered")
  /\ UNCHANGED <<zoomVars, probe, numPages, viewTop, observed, docVars, saveVars, scopeVars,
                 netVars, backend, fabricCanvases, drawingRect>>

\* Lines 84-85 of renderPage with the visible set it was handed: the page
\* to give up is chosen and evicted, and its overlay goes with its canvas.
EvictFurthestCall ==
  /\ probe.fn = "evictFurthestFromVisible" /\ ~probe.done
  /\ LET toEvict == EvictFurthestFromVisible(pageInfos, probe.args[1])
     IN /\ probe' = [probe EXCEPT !.out = toEvict, !.done = TRUE]
        /\ pageInfos' = EvictPage(pageInfos, toEvict)
  /\ overlayDom' = [p \in {q \in DOMAIN overlayDom : pageInfos'[q + 1].rendered}
                      |-> overlayDom[p]]
  /\ Note("evictFurthest")
  /\ UNCHANGED <<zoomVars, numPages, renderTasks, viewTop, observed, docVars,
                 saveVars, scopeVars, netVars, backend, fabricCanvases,
                 drawingRect>>

\* evictPage called for any page
EvictPageCall(pageIndex) ==
  /\ probe.fn = "evictFurthestFromVisible" /\ ~probe.done
  /\ probe' = [Call("evictPage", <<pageIndex>>) EXCEPT
                 !.out = pageIndex, !.done = TRUE]
  /\ pageInfos' = EvictPage(pageInfos, pageIndex)
  /\ overlayDom' = [p \in {q \in DOMAIN overlayDom : pageInfos'[q + 1].rendered}
                      |-> overlayDom[p]]
  /\ Note("evictPage")
  /\ UNCHANGED <<zoomVars, numPages, renderTasks, viewTop, observed, docVars,
                 saveVars, scopeVars, netVars, backend, fabricCanvases,
                 drawingRect>>

----------------------------------------------------------------------------
(* Actions on the canonical list: the overlay gestures of                  *)
(* annotation-layer.js with markup-tools.js, the canvas gestures of        *)
(* fabric-layer.js, and undo/redo.                                         *)

MaxUndo == 2
Ids == {"m1"}
UsedIds ==
  {markups[i].id : i \in 1..Len(markups)}
    \cup UNION {{undoStack[k][i].id : i \in 1..Len(undoStack[k])} :
                  k \in 1..Len(undoStack)}
    \cup UNION {{redoStack[k][i].id : i \in 1..Len(redoStack[k])} :
                  k \in 1..Len(redoStack)}
    \cup UNION {{fabricCanvases[p][i].data.id : i \in 1..Len(fabricCanvases[p])} :
                  p \in DOMAIN fabricCanvases}

NewMarkups(id, page) ==
  {Markup(id, page, "highlight", Red, Null),
   Markup(id, page, "comment", Null, "note")}

\* save-manager.js scheduleSave: the timer that state.saveTimeout refers to
\* is cleared and a new one is set.
ScheduleSave ==
  /\ dirty' = TRUE
  /\ saveTimeout' = (IF saveTimeout > 0 THEN saveTimeout - 1 ELSE 0) + 1
  /\ UNCHANGED <<saveStatus, lastSaveError>>

Install(st) ==
  /\ markups' = st.m
  /\ undoStack' = st.u
  /\ redoStack' = st.r
  /\ fabricCanvases' = st.c

CanEdit == view = "pages" /\ ~Navigated

\* markup-tools.js addMarkup, called by the overlay's gesture handlers
AddMarkup(m) ==
  LET st == PushUndo(backend, DocState)
  IN /\ Install([st EXCEPT !.m = Append(st.m, m)])
     /\ ScheduleSave
     /\ overlayDom' = RenderMarkups(overlayDom, markups')

\* markup-tools.js deleteMarkup
DeleteMarkup(markupId) ==
  LET st == PushUndo(backend, DocState)
  IN /\ Install([st EXCEPT !.m = SelectSeq(st.m, LAMBDA x : x.id # markupId)])
     /\ ScheduleSave
     /\ overlayDom' = RenderMarkups(overlayDom, markups')

OverlayCreate(pageIndex, m) ==
  /\ CanEdit
  /\ pageIndex \in DOMAIN overlayDom /\ pageIndex \notin DOMAIN fabricCanvases
  /\ Len(undoStack) < MaxUndo
  /\ m.id \notin UsedIds /\ m.page = pageIndex
  /\ AddMarkup(m)
  /\ hist' = [hist EXCEPT !.op = "create", !.n = @ + 1, !.since = TRUE]
  /\ UNCHANGED <<zoomVars, probe, cacheVars, scopeVars, netVars, backend, drawingRect>>

\* The gestures of annotation-layer.js on the overlay of a page, with the
\* bounds they give the markup they create.  Lengths are in thousandths of
\* the page's width and height, a page being Unit pixels wide and high, so
\* that the pointer's pixel offset in the overlay is its normalized
\* position.  The list keeps no bounds: those of the markup created last
\* are probe.out.
Unit == 1000
CommentSize == 30
TextPad == 20
TextWidth == 200
TextHeight == 50
InkMargin == 5
MinDrag == 5
Black == "#000000"
PointerPositions == {0, 10, 500, 990, 1000}

Bounds(x, y, width, height) ==
  [x |-> x, y |-> y, width |-> width, height |-> height]

\* mousedown in comment mode, after the modal
CommentBounds(nx, ny) == Bounds(nx, ny, CommentSize, CommentSize)

\* mousedown in text mode, after the modal
TextBounds(nx, ny) ==
  Bounds(Max2(0, nx - TextPad), Max2(0, ny - TextPad), TextWidth, TextHeight)

\* finishInkStroke: the box of the points with a margin
InkBounds(pts) ==
  LET xs == [i \in 1..Len(pts) |-> pts[i][1]]
      ys == [i \in 1..Len(pts) |-> pts[i][2]]
  IN Bounds(Max2(0, SeqMin(xs) - InkMargin), Max2(0, SeqMin(ys) - InkMargin),
            Min2(Unit, SeqMax(xs) - SeqMin(xs) + 2 * InkMargin),
            Min2(Unit, SeqMax(ys) - SeqMin(ys) + 2 * InkMargin))

\* mouseup in highlight mode: normalizeBounds of the dragged rectangle; in
\* these units the division by the page size changes nothing
HighlightBounds(start, end) ==
  Bounds(Min2(start[1], end[1]), Min2(start[2], end[2]),
         Abs(end[1] - start[1]), Abs(end[2] - start[2]))

Gesture(pageIndex, m, fn, args, bounds) ==
  /\ CanEdit
  /\ pageIndex \in DOMAIN overlayDom /\ pageIndex \notin DOMAIN fabricCanvases
  /\ Len(undoStack) < MaxUndo
  /\ m.id \notin UsedIds /\ m.page = pageIndex
  /\ AddMarkup(m)
  /\ probe' = [fn |-> fn, args |-> args, out |-> bounds, done |-> TRUE]
  /\ hist' = [hist EXCEPT !.op = "create", !.n = @ + 1, !.since = TRUE]
  /\ UNCHANGED <<zoomVars, cacheVars, scopeVars, netVars, backend,
                 drawingRect>>

OverlayCommentClick(pageIndex, id, nx, ny) ==
  Gesture(pageIndex, Markup(id, pageIndex, "comment", Null, "note"),
          "comment", <<nx, ny>>, CommentBounds(nx, ny))

OverlayTextClick(pageIndex, id, nx, ny) ==
  Gesture(pageIndex, Markup(id, pageIndex, "text", Black, "note"),
          "text", <<nx, ny>>, TextBounds(nx, ny))

\* mouseup or mouseleave in draw mode, after a stroke of two points
FinishInkStroke(pageIndex, id, pts) ==
  /\ Len(pts) >= 2
  /\ Gesture(pageIndex, Markup(id, pageIndex, "ink", Black, Null),
             "ink", pts, InkBounds(pts))

\* mouseup in highlight mode, after a drag of at least MinDrag pixels
OverlayHighlightUp(pageIndex, id, start, end) ==
  /\ ~(Abs(end[1] - start[1]) < MinDrag \/ Abs(end[2] - start[2]) < MinDrag)
  /\ Gesture(pageIndex, Markup(id, pageIndex, "highlight", Red, Null),
             "highlight", <<start, end>>, HighlightBounds(start, end))

\* click on a highlight element, or Delete in a popover
OverlayDelete(pageIndex, i) ==
  /\ CanEdit
  /\ pageIndex \in DOMAIN overlayDom /\ pageIndex \notin DOMAIN fabricCanvases
  /\ i \in 1..Len(overlayDom[pageIndex])
  /\ Len(undoStack) < MaxUndo
  /\ DeleteMarkup(overlayDom[pageIndex][i].id)
  /\ hist' = [hist EXCEPT !.op = "delete", !.n = @ + 1, !.since = TRUE]
  /\ UNCHANGED <<zoomVars, probe, cacheVars, scopeVars, netVars, backend, drawingRect>>

\* annotation-layer.js showCommentPopover, Save
OverlayEditComment(pageIndex, i, text) ==
  /\ CanEdit
  /\ pageIndex \in DOMAIN overlayDom /\ pageIndex \notin DOMAIN fabricCanvases
  /\ i \in 1..Len(overlayDom[pageIndex])
  /\ overlayDom[pageIndex][i].type = "comment"
  /\ Len(undoStack) < MaxUndo
  /\ LET id == overlayDom[pageIndex][i].id
         found == \E k \in 1..Len(markups) : markups[k].id = id
         st == PushUndo(backend, DocState)
     IN IF found
        THEN /\ Install([st EXCEPT !.m =
                  [k \in 1..Len(st.m) |->
                     IF k = (CHOOSE j \in 1..Len(st.m) : st.m[j].id = id
                               /\ \A l \in 1..(j - 1) : st.m[l].id # id)
                     THEN [st.m[k] EXCEPT !.text = text] ELSE st.m[k]]])
             /\ ScheduleSave
        ELSE UNCHANGED <<zoomVars, probe, docVars, fabricCanvases, saveVars>>
  /\ overlayDom' = RenderMarkups(overlayDom, markups')
  /\ hist' = [hist EXCEPT !.op = "edit", !.base = markups', !.n = 0,
                        !.since = @ \/ undoStack' # undoStack]
  /\ UNCHANGED <<zoomVars, probe, cacheVars, scopeVars, netVars, backend, drawingRect>>

\* fabric-layer.js initFabricForPage: the canvas of a rendered page is created
\* and filled by loadMarkupsForPage before its event handlers are registered.
InitFabricForPage(pageIndex) ==
  /\ CanEdit /\ backend = "canvas"
  /\ pageInfos[pageIndex + 1].rendered
  /\ pageIndex \notin DOMAIN fabricCanvases
  /\ fabricCanvases' = [p \in DOMAIN fabricCanvases \cup {pageIndex} |->
                          IF p = pageIndex THEN LoadPageObjects(markups, p)
                          ELSE fabricCanvases[p]]
  /\ Note("initFabric")
  /\ UNCHANGED <<zoomVars, probe, cacheVars, docVars, saveVars, scopeVars, netVars, backend,
                 overlayDom, drawingRect>>

NoRect == [page |-> NoPage, id |-> Null]

\* mouse:down in highlight mode: pushUndo, then canvas.add(drawingRect),
\* whose object:added handler calls syncPageToState.
CanvasMouseDown(pageIndex, id, stroke) ==
  /\ CanEdit
  /\ pageIndex \in DOMAIN fabricCanvases
  /\ drawingRect = NoRect
  /\ Len(undoStack) < MaxUndo
  /\ id \notin UsedIds
  /\ LET st == PushUndo(backend, DocState)
         rect == [data |-> [id |-> id, page |-> pageIndex,
                            markupType |-> "highlight", commentText |-> Null],
                  fill |-> [rgba |-> TRUE, hex |-> DefaultHighlight],
                  stroke |-> stroke, commentText |-> Null,
                  text |-> Null]
         c == [st.c EXCEPT ![pageIndex] = Append(@, rect)]
     IN Install([st EXCEPT !.c = c, !.m = SyncPageToState(st.m, c, pageIndex)])
  /\ ScheduleSave
  /\ drawingRect' = [page |-> pageIndex, id |-> id]
  /\ hist' = [hist EXCEPT !.op = "create", !.n = @ + 1, !.since = TRUE]
  /\ UNCHANGED <<zoomVars, probe, cacheVars, scopeVars, netVars, backend, overlayDom>>

\* mouse:up in highlight mode: a rectangle under 5 pixels is removed (its
\* object:removed handler syncs the page), a larger one is kept and synced.
CanvasMouseUp(big) ==
  /\ CanEdit
  /\ drawingRect # NoRect
  /\ LET p == drawingRect.page
         present == \E i \in 1..Len(fabricCanvases[p]) :
                       fabricCanvases[p][i].data.id = drawingRect.id
         c == IF big THEN fabricCanvases
              ELSE [fabricCanvases EXCEPT ![p] =
                      SelectSeq(@, LAMBDA o : o.data.id # drawingRect.id)]
     IN IF big \/ present
        THEN /\ fabricCanvases' = c
             /\ markups' = SyncPageToState(markups, c, p)
             /\ ScheduleSave
        ELSE UNCHANGED <<zoomVars, probe, fabricCanvases, markups, saveVars>>
  /\ drawingRect' = NoRect
  /\ hist' = [hist EXCEPT !.op = "createEnd",
                        !.since = @ \/ fabricCanvases' # fabricCanvases
                                    \/ big]
  /\ UNCHANGED <<zoomVars, probe, cacheVars, undoStack, redoStack, scopeVars, netVars, backend,
                 overlayDom>>

\* Delete in the context menu: removeSelectedFromAllCanvases removes the
\* selected object (object:removed syncs the page) and syncs the page again.
ContextMenuDelete(pageIndex, i) ==
  /\ CanEdit
  /\ pageIndex \in DOMAIN fabricCanvases
  /\ i \in 1..Len(fabricCanvases[pageIndex])
  /\ drawingRect = NoRect
  /\ LET c == [fabricCanvases EXCEPT ![pageIndex] =
                 [k \in 1..(Len(@) - 1) |-> IF k < i THEN @[k] ELSE @[k + 1]]]
     IN /\ fabricCanvases' = c
        /\ markups' = SyncPageToState(markups, c, pageIndex)
  /\ ScheduleSave
  /\ hist' = [hist EXCEPT !.op = "delete", !.n = @ + 1, !.since = TRUE]
  /\ UNCHANGED <<zoomVars, probe, cacheVars, undoStack, redoStack, scopeVars, netVars, backend,
                 overlayDom, drawingRect>>

\* An undo that ends with scheduleSave whatever the stack held.
UndoAlwaysSaves ==
  /\ CanEdit
  /\ Install(Undo(backend, DocState))
  /\ overlayDom' = IF backend = "overlay"
                   THEN RenderMarkups(overlayDom, markups')
                   ELSE overlayDom
  /\ ScheduleSave
  /\ hist' = [hist EXCEPT !.op = "undo", !.base = markups', !.n = 0,
                        !.since = @ \/ undoStack # <<>>]
  /\ UNCHANGED <<zoomVars, probe, cacheVars, scopeVars, netVars, backend, drawingRect>>

\* undoManager.undo: the overlay version redraws the overlays, the canvas
\* version rebuilds the canvases; both end with scheduleSave.
UndoClick ==
  /\ CanEdit
  /\ IF undoStack = <<>>
     THEN UNCHANGED <<zoomVars, probe, docVars, fabricCanvases, overlayDom, saveVars>>
     ELSE /\ Install(Undo(backend, DocState))
          /\ overlayDom' = IF backend = "overlay"
                           THEN RenderMarkups(overlayDom, markups')
                           ELSE overlayDom
          /\ ScheduleSave
  /\ hist' = [hist EXCEPT !.op = "undo", !.base = markups', !.n = 0,
                        !.since = @ \/ undoStack # <<>>]
  /\ UNCHANGED <<zoomVars, probe, cacheVars, scopeVars, netVars, backend, drawingRect>>

RedoClick ==
  /\ CanEdit
  /\ IF redoStack = <<>>
     THEN UNCHANGED <<zoomVars, probe, docVars, fabricCanvases, overlayDom, saveVars>>
     ELSE /\ Install(Redo(backend, DocState))
          /\ overlayDom' = IF backend = "overlay"
                           THEN RenderMarkups(overlayDom, markups')
                           ELSE overlayDom
          /\ ScheduleSave
  /\ hist' = [hist EXCEPT !.op = "redo", !.base = markups', !.n = 0,
                        !.since = @ \/ redoStack # <<>>]
  /\ UNCHANGED <<zoomVars, probe, cacheVars, scopeVars, netVars, backend, drawingRect>>

----------------------------------------------------------------------------
(* View mode and edit mode: the btn-edit and btn-done handlers of main.js, *)
(* and the handlers that test state.isEditMode.  state.mode is 'none' in   *)
(* view mode (btn-done sets it, the mode buttons are in #edit-mode-only),  *)
(* so the handlers that test state.mode run their gestures in edit mode    *)
(* only.                                                                   *)

EditClick ==
  /\ ~Navigated /\ ~isEditMode
  /\ isEditMode' = TRUE
  /\ Note("editMode")
  /\ UNCHANGED <<scale, savedZoom, pdfDoc, view, rebuilds, building,
                 pageDimensions, pageSize, popover, server, listScope,
                 captured, heap, drawingPathPoints, raster,
                 probe, cacheVars,
                 docVars, saveVars, scopeVars, backendVars, netVars>>

\* A rectangle being dragged is removed by mouse:out before the pointer
\* reaches the button.
DoneClick ==
  /\ ~Navigated /\ isEditMode
  /\ drawingRect = NoRect
  /\ isEditMode' = FALSE
  /\ Note("viewMode")
  /\ UNCHANGED <<scale, savedZoom, pdfDoc, view, rebuilds, building,
                 pageDimensions, pageSize, popover, server, listScope,
                 captured, heap, drawingPathPoints, raster,
                 probe, cacheVars,
                 docVars, saveVars, scopeVars, backendVars, netVars>>

\* click on a comment dot or a text element: showCommentPopover or
\* showTextEditPopover replaces the open popover
OpenPopover(pageIndex, i) ==
  /\ CanEdit /\ isEditMode
  /\ pageIndex \in DOMAIN overlayDom /\ pageIndex \notin DOMAIN fabricCanvases
  /\ i \in 1..Len(overlayDom[pageIndex])
  /\ overlayDom[pageIndex][i].type \in {"comment", "text"}
  /\ popover' = overlayDom[pageIndex][i].id
  /\ Note("popover")
  /\ UNCHANGED <<scale, savedZoom, pdfDoc, view, rebuilds, building,
                 pageDimensions, pageSize, isEditMode, server, listScope,
                 captured, heap, drawingPathPoints, raster,
                 probe, cacheVars,
                 docVars, saveVars, scopeVars, backendVars, netVars>>

\* Save in the popover: the markup with the popover's id, if the list
\* still has one, gets the text; the overlays are redrawn and the popover
\* is removed.
PopoverSave(text) ==
  /\ CanEdit
  /\ popover # Null
  /\ Len(undoStack) < MaxUndo
  /\ LET found == \E k \in 1..Len(markups) : markups[k].id = popover
         st == PushUndo(backend, DocState)
     IN IF found
        THEN /\ Install([st EXCEPT !.m =
                  [k \in 1..Len(st.m) |->
                     IF k = (CHOOSE j \in 1..Len(st.m) : st.m[j].id = popover
                               /\ \A l \in 1..(j - 1) : st.m[l].id # popover)
                     THEN [st.m[k] EXCEPT !.text = text] ELSE st.m[k]]])
             /\ ScheduleSave
        ELSE UNCHANGED <<docVars, fabricCanvases, saveVars>>
  /\ overlayDom' = RenderMarkups(overlayDom, markups')
  /\ popover' = Null
  /\ hist' = [hist EXCEPT !.op = "edit", !.base = markups', !.n = 0,
                        !.since = @ \/ undoStack' # undoStack]
  /\ UNCHANGED <<scale, savedZoom, pdfDoc, view, rebuilds, building,
                 pageDimensions, pageSize, isEditMode, server, listScope,
                 captured, heap, drawingPathPoints, raster,
                 probe, cacheVars,
                 scopeVars, netVars, backend, drawingRect>>

\* Delete in the popover
PopoverDelete ==
  /\ CanEdit
  /\ popover # Null
  /\ Len(undoStack) < MaxUndo
  /\ DeleteMarkup(popover)
  /\ popover' = Null
  /\ hist' = [hist EXCEPT !.op = "delete", !.n = @ + 1, !.since = TRUE]
  /\ UNCHANGED <<scale, savedZoom, pdfDoc, view, rebuilds, building,
                 pageDimensions, pageSize, isEditMode, server, listScope,
                 captured, heap, drawingPathPoints, raster,
                 probe, cacheVars,
                 scopeVars, netVars, backend, drawingRect>>

----------------------------------------------------------------------------
(* The objects behind the canonical list and the two stacks.  state.markups *)
(* and every stack entry is a reference to an array, an array holds        *)
(* references to markup objects; an assignment through one reference is    *)
(* seen through every other reference to the same array or object.         *)

\* heap.arr and heap.rec: the arrays and the objects; heap.m, heap.u and
\* heap.r: state.markups and the entries of the two stacks; heap.popped:
\* state.markups is an array that undo or redo took from a stack.
NoHeap == [arr |-> <<>>, rec |-> <<>>, m |-> 0, u |-> <<>>, r |-> <<>>,
           popped |-> FALSE]

Deref(h, a) == [k \in 1..Len(h.arr[a]) |-> h.rec[h.arr[a][k]]]

\* n references that are not in use
RECURSIVE FreshRefs(_, _)
FreshRefs(used, n) ==
  IF n = 0 THEN <<>>
  ELSE LET x == CHOOSE y \in 1..(Cardinality(used) + 1) : y \notin used
       IN <<x>> \o FreshRefs(used \cup {x}, n - 1)

\* array.slice(): a new array of the same objects
ShallowCopy(h, a) ==
  LET na == FreshRefs(DOMAIN h.arr, 1)[1]
  IN [h |-> [h EXCEPT !.arr = [x \in DOMAIN h.arr \cup {na} |->
                                 IF x = na THEN h.arr[a] ELSE h.arr[x]]],
      a |-> na]

\* A snapshot that is a new array of the objects of the list.
CopyKeepingObjects(h, a) == ShallowCopy(h, a)

\* JSON.parse(JSON.stringify(array)): a new array of new objects
DeepCopy(h, a) ==
  LET na == FreshRefs(DOMAIN h.arr, 1)[1]
      nr == FreshRefs(DOMAIN h.rec, Len(h.arr[a]))
  IN [h |-> [h EXCEPT
               !.arr = [x \in DOMAIN h.arr \cup {na} |->
                          IF x = na THEN nr ELSE h.arr[x]],
               !.rec = [x \in DOMAIN h.rec \cup {nr[k] : k \in 1..Len(nr)} |->
                          IF x \in DOMAIN h.rec THEN h.rec[x]
                          ELSE h.rec[h.arr[a][CHOOSE k \in 1..Len(nr) :
                                                 nr[k] = x]]]],
      a |-> na]

\* The first place of x in a sequence, and the sequence without repeats
FirstAt(seq, x) ==
  CHOOSE k \in 1..Len(seq) : seq[k] = x /\ \A l \in 1..(k - 1) : seq[l] # x

Distinct(seq) == SelectSeq([k \in 1..Len(seq) |-> <<k, seq[k]>>],
                           LAMBDA e : FirstAt(seq, e[2]) = e[1])

RECURSIVE ObjectsOf(_, _)
ObjectsOf(h, arrays) ==
  IF arrays = <<>> THEN <<>>
  ELSE h.arr[Head(arrays)] \o ObjectsOf(h, Tail(arrays))

\* The arrays and objects no reference leads to are collected, and the
\* others are named in the order in which the list and the stacks reach
\* them: a reference has no meaning but which object it leads to.
Collect(h) ==
  LET arrays == <<h.m>> \o h.u \o h.r
      objects == Distinct(ObjectsOf(h, arrays))
      a2(a) == FirstAt(arrays, a)
      o2(x) == CHOOSE k \in 1..Len(objects) : objects[k][2] = x
  IN [arr |-> [n \in {a2(arrays[k]) : k \in 1..Len(arrays)} |->
                 [j \in 1..Len(h.arr[arrays[n]]) |-> o2(h.arr[arrays[n]][j])]],
      rec |-> [n \in 1..Len(objects) |-> h.rec[objects[n][2]]],
      m |-> 1,
      u |-> [k \in 1..Len(h.u) |-> a2(h.u[k])],
      r |-> [k \in 1..Len(h.r) |-> a2(h.r[k])],
      popped |-> h.popped]

\* undo-manager.js pushUndo in the version that reads state.markups
HeapPushUndo(h) ==
  LET c == DeepCopy(h, h.m)
  IN [c.h EXCEPT !.u = Append(h.u, c.a), !.r = <<>>]

\* The state the references give: the list, the stacks, the overlays
\* redrawn from the list, and scheduleSave.
HeapInstall(h) ==
  /\ heap' = Collect(h)
  /\ markups' = Deref(h, h.m)
  /\ undoStack' = [k \in 1..Len(h.u) |-> Deref(h, h.u[k])]
  /\ redoStack' = [k \in 1..Len(h.r) |-> Deref(h, h.r[k])]
  /\ overlayDom' = RenderMarkups(overlayDom, markups')
  /\ ScheduleSave

\* markup-tools.js addMarkup: state.markups.push(m)
HeapCreate(m) ==
  /\ CanEdit
  /\ Len(undoStack) < MaxUndo
  /\ m.id \notin UsedIds
  /\ LET h == HeapPushUndo(heap)
         x == FreshRefs(DOMAIN h.rec, 1)[1]
     IN HeapInstall([h EXCEPT
          !.arr[h.m] = Append(@, x),
          !.rec = [y \in DOMAIN h.rec \cup {x} |->
                     IF y = x THEN m ELSE h.rec[y]]])
  /\ hist' = [hist EXCEPT !.op = "create", !.n = @ + 1, !.since = TRUE]
  /\ UNCHANGED <<viewVars, modeVars, server, listScope, captured, drawingPathPoints, raster,
                 probe,
                 cacheVars, scopeVars, netVars, backend, fabricCanvases,
                 drawingRect>>

\* markup-tools.js deleteMarkup: state.markups = state.markups.filter(...)
HeapDelete(markupId) ==
  /\ CanEdit
  /\ Len(undoStack) < MaxUndo
  /\ \E k \in 1..Len(markups) : markups[k].id = markupId
  /\ LET h == HeapPushUndo(heap)
         c == ShallowCopy(h, h.m)
     IN HeapInstall([c.h EXCEPT
          !.m = c.a,
          !.arr[c.a] = SelectSeq(@, LAMBDA x : h.rec[x].id # markupId)])
  /\ hist' = [hist EXCEPT !.op = "delete", !.n = @ + 1, !.since = TRUE]
  /\ UNCHANGED <<viewVars, modeVars, server, listScope, captured, drawingPathPoints, raster,
                 probe,
                 cacheVars, scopeVars, netVars, backend, fabricCanvases,
                 drawingRect>>

\* Save in a popover: state.markups[idx].text = ..., on the object itself
HeapEditText(markupId, text) ==
  /\ CanEdit
  /\ Len(undoStack) < MaxUndo
  /\ \E k \in 1..Len(markups) : markups[k].id = markupId
  /\ LET h == HeapPushUndo(heap)
         idx == CHOOSE k \in 1..Len(markups) :
                  /\ markups[k].id = markupId
                  /\ \A l \in 1..(k - 1) : markups[l].id # markupId
     IN HeapInstall([h EXCEPT !.rec[h.arr[h.m][idx]].text = text])
  /\ hist' = [hist EXCEPT !.op = "edit", !.base = markups', !.n = 0,
                        !.since = TRUE]
  /\ UNCHANGED <<viewVars, modeVars, server, listScope, captured, drawingPathPoints, raster,
                 probe,
                 cacheVars, scopeVars, netVars, backend, fabricCanvases,
                 drawingRect>>

\* undoManager.undo: a copy of the list goes onto the redo stack and
\* state.markups becomes the array popped from the undo stack
HeapUndo ==
  /\ CanEdit
  /\ undoStack # <<>>
  /\ LET c == DeepCopy(heap, heap.m)
     IN HeapInstall([c.h EXCEPT !.r = Append(heap.r, c.a),
                               !.m = Last(heap.u),
                               !.u = Front(heap.u),
                               !.popped = TRUE])
  /\ hist' = [hist EXCEPT !.op = "undo", !.base = markups', !.n = 0,
                        !.since = TRUE]
  /\ UNCHANGED <<viewVars, modeVars, server, listScope, captured, drawingPathPoints, raster,
                 probe,
                 cacheVars, scopeVars, netVars, backend, fabricCanvases,
                 drawingRect>>

\* undoManager.redo
HeapRedo ==
  /\ CanEdit
  /\ redoStack # <<>>
  /\ LET c == DeepCopy(heap, heap.m)
     IN HeapInstall([c.h EXCEPT !.u = Append(heap.u, c.a),
                               !.m = Last(heap.r),
                               !.r = Front(heap.r),
                               !.popped = TRUE])
  /\ hist' = [hist EXCEPT !.op = "redo", !.base = markups', !.n = 0,
                        !.since = TRUE]
  /\ UNCHANGED <<viewVars, modeVars, server, listScope, captured, drawingPathPoints, raster,
                 probe,
                 cacheVars, scopeVars, netVars, backend, fabricCanvases,
                 drawingRect>>

----------------------------------------------------------------------------
(* Freehand strokes.  A point of a stroke is named by its place in the     *)
(* sequence of pointer positions of the gesture.                           *)

InkLimit == 500
MaxStroke == 502
NoPath == [page |-> NoPage, pts |-> <<>>]

InkMarkup(id, page, pts) ==
  [id |-> id, page |-> page, type |-> "ink", color |-> Black, text |-> Null,
   points |-> pts]

\* A stroke whose points are all kept: the call without the limit.
KeepAllPoints(pts) == pts

\* pts.length > 500 ? markupTools.decimatePoints(pts, 500) : pts
LimitPoints(pts) ==
  IF Len(pts) > InkLimit THEN DecimatePoints(pts, InkLimit) ELSE pts

\* The overlay's mousedown in draw mode: state.inkPoints = [[nx, ny]] and a
\* new state.inkStrokeEl on the page.
InkOverlayDown(pageIndex) ==
  /\ CanEdit /\ isEditMode
  /\ Ids \ UsedIds # {}
  /\ backend = "overlay"
  /\ pageIndex \in DOMAIN overlayDom /\ pageIndex \notin DOMAIN fabricCanvases
  /\ drawingPathPoints' = [page |-> pageIndex, pts |-> <<1>>]
  /\ Note("inkDown")
  /\ UNCHANGED <<viewVars, modeVars, server, listScope, captured, heap, raster,
                 probe, cacheVars, docVars, saveVars, scopeVars,
                 backendVars, netVars>>

\* The overlay's mousemove in draw mode: one more point
InkOverlayMove ==
  /\ CanEdit
  /\ backend = "overlay"
  /\ drawingPathPoints # NoPath
  /\ Len(drawingPathPoints.pts) < MaxStroke
  /\ drawingPathPoints' =
       [drawingPathPoints EXCEPT !.pts = Append(@, Len(@) + 1)]
  /\ Note("inkMove")
  /\ UNCHANGED <<viewVars, modeVars, server, listScope, captured, heap, raster,
                 probe, cacheVars, docVars, saveVars, scopeVars,
                 backendVars, netVars>>

\* annotation-layer.js finishInkStroke, from mouseup, mouseleave or
\* touchend: nothing for a stroke of fewer than two points.
InkOverlayFinish(id) ==
  /\ CanEdit
  /\ backend = "overlay"
  /\ drawingPathPoints # NoPath
  /\ IF Len(drawingPathPoints.pts) < 2
     THEN /\ Note("inkNone")
          /\ UNCHANGED <<drawingPathPoints, raster, docVars, saveVars, overlayDom,
                         fabricCanvases>>
     ELSE /\ Len(undoStack) < MaxUndo
          /\ id \notin UsedIds
          /\ AddMarkup(InkMarkup(id, drawingPathPoints.page,
                                 LimitPoints(drawingPathPoints.pts)))
          /\ drawingPathPoints' = NoPath
          /\ hist' = [hist EXCEPT !.op = "create", !.n = @ + 1,
                                !.since = TRUE]
  /\ UNCHANGED <<viewVars, modeVars, server, listScope, captured, heap, raster,
                 probe, cacheVars, scopeVars, netVars, backend, drawingRect>>

\* The canvas's mouse:down in draw mode: pushUndo, then
\* drawingPathPoints = [[ptr.x, ptr.y]].
InkCanvasDown(pageIndex) ==
  /\ CanEdit /\ isEditMode
  /\ Ids \ UsedIds # {}
  /\ pageIndex \in DOMAIN fabricCanvases
  /\ Len(undoStack) < MaxUndo
  /\ Install(PushUndo(backend, DocState))
  /\ drawingPathPoints' = [page |-> pageIndex, pts |-> <<1>>]
  /\ hist' = [hist EXCEPT !.op = "inkDown", !.since = TRUE]
  /\ UNCHANGED <<viewVars, modeVars, server, listScope, captured, heap, raster,
                 probe, cacheVars, saveVars, scopeVars, netVars, backend,
                 overlayDom, drawingRect>>

\* The canvas's mouse:move in draw mode
InkCanvasMove ==
  /\ CanEdit
  /\ backend = "canvas"
  /\ drawingPathPoints # NoPath
  /\ Len(drawingPathPoints.pts) < MaxStroke
  /\ drawingPathPoints' =
       [drawingPathPoints EXCEPT !.pts = Append(@, Len(@) + 1)]
  /\ Note("inkMove")
  /\ UNCHANGED <<viewVars, modeVars, server, listScope, captured, heap, raster,
                 probe, cacheVars, docVars, saveVars, scopeVars,
                 backendVars, netVars>>

\* The canvas's mouse:up in draw mode.  The fabric.Path is built from the
\* path string of every point of the stroke, the limited list goes into
\* its data option; canvas.add raises object:added, whose handler calls
\* syncPageToState, and the handler calls it again.
InkCanvasUp(id) ==
  /\ CanEdit
  /\ backend = "canvas"
  /\ drawingPathPoints # NoPath
  /\ drawingPathPoints.page \in DOMAIN fabricCanvases
  /\ LET p == drawingPathPoints.page
         pts == drawingPathPoints.pts
         pathObj == [data |-> [id |-> id, page |-> p, markupType |-> "ink",
                               commentText |-> Null,
                               points |-> LimitPoints(pts)],
                     fill |-> [rgba |-> FALSE, hex |-> Null],
                     stroke |-> Black, commentText |-> Null, text |-> Null,
                     path |-> pts]
         c == [fabricCanvases EXCEPT ![p] = Append(@, pathObj)]
     IN IF Len(pts) >= 2
        THEN /\ id \notin UsedIds
             /\ fabricCanvases' = c
             /\ markups' = SyncPageToState(markups, c, p)
             /\ ScheduleSave
             /\ hist' = [hist EXCEPT !.op = "createEnd", !.since = TRUE]
        ELSE /\ Note("inkNone")
             /\ UNCHANGED <<fabricCanvases, markups, saveVars>>
  /\ drawingPathPoints' = NoPath
  /\ UNCHANGED <<viewVars, modeVars, server, listScope, captured, heap, raster,
                 probe, cacheVars, undoStack, redoStack, scopeVars, netVars,
                 backend, overlayDom, drawingRect>>

\* The canvas's mouse:out in draw mode: the stroke is dropped.
InkCanvasOut ==
  /\ CanEdit
  /\ backend = "canvas"
  /\ drawingPathPoints # NoPath
  /\ drawingPathPoints' = NoPath
  /\ Note("inkOut")
  /\ UNCHANGED <<viewVars, modeVars, server, listScope, captured, heap, raster,
                 probe, cacheVars, docVars, saveVars, scopeVars,
                 backendVars, netVars>>

----------------------------------------------------------------------------
(* Gestures that end without a markup.  While the dialog of showTextModal  *)
(* is open, popover is "prompt".                                           *)

\* The overlay's mouseup in highlight mode after a drag of less than
\* MinDrag pixels in one direction: the preview is removed, nothing else.
OverlayHighlightSmall(pageIndex, start, end) ==
  /\ CanEdit /\ isEditMode
  /\ pageIndex \in DOMAIN overlayDom /\ pageIndex \notin DOMAIN fabricCanvases
  /\ Abs(end[1] - start[1]) < MinDrag \/ Abs(end[2] - start[2]) < MinDrag
  /\ Note("dragNone")
  /\ UNCHANGED <<zoomVars, probe, cacheVars, docVars, saveVars, scopeVars,
                 backendVars, netVars>>

\* The overlay's mousedown in comment or text mode: the dialog opens.
OverlayPromptDown(pageIndex) ==
  /\ CanEdit /\ isEditMode
  /\ pageIndex \in DOMAIN overlayDom /\ pageIndex \notin DOMAIN fabricCanvases
  /\ popover = Null
  /\ popover' = "prompt"
  /\ Note("prompt")
  /\ UNCHANGED <<viewVars, isEditMode, server, listScope, captured, heap,
                 drawingPathPoints, raster, probe, cacheVars, docVars, saveVars,
                 scopeVars, backendVars, netVars>>

\* The canvas's mouse:down in text or comment mode: pushUndo, then the
\* dialog opens.
CanvasPromptDown(pageIndex) ==
  /\ CanEdit /\ isEditMode
  /\ pageIndex \in DOMAIN fabricCanvases
  /\ popover = Null
  /\ Len(undoStack) < MaxUndo
  /\ Install(PushUndo(backend, DocState))
  /\ popover' = "prompt"
  /\ hist' = [hist EXCEPT !.op = "prompt", !.since = TRUE]
  /\ UNCHANGED <<viewVars, isEditMode, server, listScope, captured, heap,
                 drawingPathPoints, raster, probe, cacheVars, saveVars, scopeVars,
                 netVars, backend, overlayDom, drawingRect>>

\* Cancel, Escape or a click outside the dialog: the promise resolves with
\* null and the handler waiting for it, of either backend, does nothing.
PromptCancel ==
  /\ ~Navigated
  /\ popover = "prompt"
  /\ popover' = Null
  /\ Note("promptCancel")
  /\ UNCHANGED <<viewVars, isEditMode, server, listScope, captured, heap,
                 drawingPathPoints, raster, probe, cacheVars, docVars, saveVars,
                 scopeVars, backendVars, netVars>>

----------------------------------------------------------------------------
(* renderPage with its two awaits apart.  raster.vp holds, for each page,   *)
(* the viewports of the render tasks that are past getPage, and            *)
(* raster.canvas the size of the canvas and overlay installed in the       *)
(* page's descriptor.                                                      *)

NoRaster == [vp |-> <<>>, canvas |-> <<>>]

\* The pages' renders, none past getPage and no canvas installed
EmptyRaster(n) ==
  [vp |-> [p \in 0..(n - 1) |-> <<>>], canvas |-> <<>>]

\* renderPage, its getPage resolved: the viewport is taken at the scale of
\* this moment, and the task suspends at page.render.
RenderGetPageResolved(pageIndex) ==
  /\ ~Navigated
  /\ Len(raster.vp[pageIndex]) < renderTasks[pageIndex]
  /\ raster' = [raster EXCEPT !.vp[pageIndex] =
                  Append(@, Viewport(pageSize, pageIndex + 1, scale))]
  /\ Note("viewport")
  /\ UNCHANGED <<viewVars, modeVars, server, listScope, captured, heap,
                 drawingPathPoints, probe, cacheVars, docVars, saveVars,
                 scopeVars, backendVars, netVars>>

\* renderPage, its page.render resolved: the canvas and the overlay of the
\* viewport's size replace the placeholder of the descriptor the task
\* holds, the overlay backend is attached and every overlay redrawn.
RenderPageInstall(pageIndex, k) ==
  /\ ~Navigated
  /\ renderTasks[pageIndex] > 0
  /\ k \in 1..Len(raster.vp[pageIndex])
  /\ renderTasks' = [renderTasks EXCEPT ![pageIndex] = @ - 1]
  /\ pageInfos' = [pageInfos EXCEPT ![pageIndex + 1].rendered = TRUE]
  /\ raster' = [vp |-> [raster.vp EXCEPT ![pageIndex] =
                          [j \in 1..(Len(@) - 1) |->
                             IF j < k THEN @[j] ELSE @[j + 1]]],
                canvas |-> [p \in DOMAIN raster.canvas \cup {pageIndex} |->
                              IF p = pageIndex THEN raster.vp[pageIndex][k]
                              ELSE raster.canvas[p]]]
  /\ overlayDom' = RenderMarkups(
        [p \in DOMAIN overlayDom \cup {pageIndex} |-> <<>>], markups)
  /\ Note("rendered")
  /\ UNCHANGED <<viewVars, modeVars, server, listScope, captured, heap,
                 drawingPathPoints, probe, numPages, viewTop, observed,
                 docVars, saveVars, scopeVars, netVars, backend,
                 fabricCanvases, drawingRect>>

\* buildPageStructure after the awaits of build b, as in RebuildDone: the
\* new descriptors have no canvas, and the render tasks in flight hold
\* descriptors that are no longer in pageInfos.
RasterRebuildDone(b, ok) ==
  /\ ~Navigated
  /\ b \in 1..Len(building)
  /\ rebuilds' = rebuilds - 1
  /\ building' = [k \in 1..(Len(building) - 1) |->
                    IF k < b THEN building[k] ELSE building[k + 1]]
  /\ IF ok
     THEN /\ building[b] + 1 = numPages
          /\ pageDimensions' =
               Append(pageDimensions, Viewport(pageSize, numPages, scale))
          /\ pageInfos' = Placeholders(pageDimensions',
                                       Min2(Len(pageDimensions'), numPages))
          /\ renderTasks' = [p \in 0..(numPages - 1) |-> 0]
          /\ raster' = EmptyRaster(numPages)
          /\ overlayDom' = <<>>
          /\ IF Len(pageDimensions') >= numPages
             THEN view' = "pages" /\ observed' = FALSE
             ELSE view' = "blank" /\ observed' = observed
     ELSE UNCHANGED <<view, pageInfos, renderTasks, observed, overlayDom,
                      pageDimensions, raster>>
  /\ Note(IF ~ok THEN "rebuildFailed"
          ELSE IF view' = "pages" THEN "rebuilt" ELSE "rebuildThrew")
  /\ UNCHANGED <<scale, savedZoom, pdfDoc, pageSize, modeVars, server,
                 listScope, captured, heap, drawingPathPoints, probe,
                 numPages, viewTop, docVars, saveVars, scopeVars, backend,
                 fabricCanvases, drawingRect, netVars>>

----------------------------------------------------------------------------
(* Initial states.                                                         *)

DocLevel == [t |-> Null, i |-> Null]

UndoDocPages == 2

\* state.js, and the page before any script has run an event, for a
\* document with pages of the given sizes
InitPage(sizes) ==
  /\ pageSize = sizes
  /\ pageDimensions = IF loadPc = "ready"
                      THEN Measured(sizes, numPages, DefaultScale) ELSE <<>>
  /\ building = <<>>
  /\ pageInfos = Placeholders(Measured(sizes, numPages, DefaultScale),
                              numPages)
  /\ renderTasks = [p \in 0..(numPages - 1) |-> 0]
  /\ viewTop = 0
  /\ observed = FALSE
  /\ undoStack = <<>>
  /\ redoStack = <<>>
  /\ dirty = FALSE
  /\ saveStatus = "idle"
  /\ lastSaveError = ""
  /\ saveTimeout = 0
  /\ overlayDom = <<>>
  /\ fabricCanvases = <<>>
  /\ drawingRect = NoRect
  /\ net = <<>>
  /\ btnDisabled = FALSE
  /\ backPc = "idle"
  /\ scale = DefaultScale
  /\ savedZoom = NoItem
  /\ pdfDoc = (loadPc # "file")
  /\ view = IF loadPc = "ready" THEN "pages" ELSE "loading"
  /\ rebuilds = 0
  /\ hist = [op |-> "init", base |-> markups, n |-> 0, since |-> FALSE,
             thrown |-> ""]

\* The Edit button has been clicked (state.js starts with isEditMode
\* false) and no popover is open; the options of the selector are not
\* loaded and the server is not looked at.
InitExt ==
  /\ linkedOptions = <<>>
  /\ isEditMode = TRUE
  /\ popover = Null
  /\ server = <<>>
  /\ listScope = DocLevel
  /\ captured = [u |-> <<>>, r |-> <<>>]
  /\ heap = [arr |-> <<>>, rec |-> <<>>, m |-> 0, u |-> <<>>, r |-> <<>>,
             popped |-> FALSE]
  /\ drawingPathPoints = NoPath
  /\ raster = NoRaster

InitViewer(sizes) == InitPage(sizes) /\ InitExt

\* The same for a document of upright pages
InitEditor == InitViewer([i \in 1..numPages |-> "portrait"])

InitState == InitEditor /\ probe = NoCall

\* Lists a server can hold for a scope: saved by an earlier session.
ServerLists ==
  { <<>>,
    <<Markup("m0", 0, "highlight", Red, Null)>>,
    <<Markup("m0", 0, "comment", Null, "note")>> }

\* A long document, opened and loaded, with no markups: the page cache.
InitCache ==
  /\ numPages = CacheDocPages
  /\ markups = <<>>
  /\ backend = "overlay"
  /\ config = DocLevel /\ currentLinked = DocLevel /\ docLinked = <<>>
  /\ loadPc = "ready"
  /\ InitState

NextCache ==
  \/ ObserveInitial
  \/ \E d \in {-1, 1} : Scroll(d)
  \/ \E p \in 0..(numPages - 1) : RenderPageDone(p)

SpecCache == InitCache /\ [][NextCache]_vars

\* A two-page document, loaded with the list of its scope, in either backend.
InitUndo ==
  /\ numPages = UndoDocPages
  /\ markups \in ServerLists
  /\ backend \in {"overlay", "canvas"}
  /\ config = DocLevel /\ currentLinked = DocLevel /\ docLinked = <<>>
  /\ loadPc = "ready"
  /\ InitState

NextUndo ==
  \/ ObserveInitial
  \/ \E p \in 0..(numPages - 1) : RenderPageDone(p)
  \/ \E p \in 0..(numPages - 1) : InitFabricForPage(p)
  \/ \E p \in 0..(numPages - 1), id \in Ids : \E m \in NewMarkups(id, p) :
       OverlayCreate(p, m)
  \/ \E p \in 0..(numPages - 1), i \in 1..2 : OverlayDelete(p, i)
  \/ \E p \in 0..(numPages - 1), i \in 1..2 : OverlayEditComment(p, i, "edited")
  \/ \E p \in 0..(numPages - 1), id \in Ids : CanvasMouseDown(p, id, Red)
  \/ \E big \in BOOLEAN : CanvasMouseUp(big)
  \/ \E p \in 0..(numPages - 1), i \in 1..2 : ContextMenuDelete(p, i)
  \/ UndoClick
  \/ RedoClick

SpecUndo == InitUndo /\ [][NextUndo]_vars

\* The same document, with the user entering and leaving edit mode.  The
\* handlers of the overlay's elements and of its mousedown, and mouse:down
\* of the canvas, return at once in view mode; the popover's buttons and
\* the canvas's objects and context menu do not ask.
NextMode ==
  \/ EditClick
  \/ DoneClick
  \/ ObserveInitial
  \/ \E p \in 0..(numPages - 1) : RenderPageDone(p)
  \/ \E p \in 0..(numPages - 1) : InitFabricForPage(p)
  \/ \E p \in 0..(numPages - 1), id \in Ids : \E m \in NewMarkups(id, p) :
       isEditMode /\ OverlayCreate(p, m)
  \/ \E p \in 0..(numPages - 1), i \in 1..2 : isEditMode /\ OverlayDelete(p, i)
  \/ \E p \in 0..(numPages - 1), i \in 1..2 : OpenPopover(p, i)
  \/ PopoverSave("edited")
  \/ PopoverDelete
  \/ \E p \in 0..(numPages - 1), id \in Ids :
       isEditMode /\ CanvasMouseDown(p, id, Red)
  \/ \E big \in BOOLEAN : isEditMode /\ CanvasMouseUp(big)
  \/ \E p \in 0..(numPages - 1), i \in 1..2 : ContextMenuDelete(p, i)

SpecMode == InitUndo /\ [][NextMode]_vars

----------------------------------------------------------------------------
(* The session: loadPdf with the context selector, the save manager, the   *)
(* Save PDF button, the Retry button and the back link.  A request in      *)
(* flight is a record of its kind, the scope and the list it carries,      *)
(* performSave's skipSavePdf argument, the continuation that waits for it  *)
(* (cont) and the event that caused it (origin).                           *)

MaxRequests == 2
SessionDocPages == 1

Task3 == [t |-> "task", i |-> "3"]
Proj7 == [t |-> "project", i |-> "7"]

\* window.__PDF_CONFIG__: no scope, a scope of the document, a foreign scope
Configs == {DocLevel, Task3, Proj7}

\* The list the server holds for a scope (a failed GET gives the empty list).
SessionLists == {<<Markup("m0", 0, "highlight", Red, Null)>>}

\* data.linked of GET /api/documents/{id}
LinkLists == {<<>>, <<Task3>>}

\* A request in flight: the scope in its URL, its body, the continuation
\* that awaits it, and whether the server has handled it.
Request(kind, body, skip, cont, origin) ==
  [kind |-> kind, scope |-> currentLinked, body |-> body, skip |-> skip,
   cont |-> cont, origin |-> origin, served |-> FALSE]

Without(s, i) == [k \in 1..(Len(s) - 1) |-> IF k < i THEN s[k] ELSE s[k + 1]]

\* performSave's guard: something to send
Sends == dirty \/ saveStatus = "error"

\* A performSave that sends whatever the state of the session.
PerformSaveAlways(skipSavePdf, cont, origin) ==
  /\ saveStatus' = "saving"
  /\ net' = Append(net, Request("PUT", markups, skipSavePdf, cont, origin))

\* save-manager.js performSave up to its fetch
PerformSave(skipSavePdf, cont, origin) ==
  IF ~Sends
  THEN UNCHANGED <<saveStatus, net>>
  ELSE /\ saveStatus' = "saving"
       /\ net' = Append(net, Request("PUT", markups, skipSavePdf, cont, origin))

\* The debounce timer of scheduleSave fires.
TimerFires ==
  /\ ~Navigated
  /\ saveTimeout > 0
  /\ Len(net) < MaxRequests
  /\ saveTimeout' = saveTimeout - 1
  /\ PerformSave(FALSE, "save", "timer")
  /\ hist' = [hist EXCEPT !.op = "timer", !.since = @ /\ ~Sends]
  /\ UNCHANGED <<zoomVars, probe, cacheVars, docVars, dirty, lastSaveError, scopeVars,
                 backendVars, btnDisabled, backPc>>

\* main.js: click on .save-retry, which the indicator shows in status error
RetryClick ==
  /\ ~Navigated
  /\ saveStatus = "error"
  /\ Len(net) < MaxRequests
  /\ PerformSave(FALSE, "save", "retry")
  /\ hist' = [hist EXCEPT !.op = "retry", !.since = FALSE]
  /\ UNCHANGED <<zoomVars, probe, cacheVars, docVars, dirty, lastSaveError, saveTimeout,
                 scopeVars, backendVars, btnDisabled, backPc>>

\* main.js handleSavePdfClick up to its first await: performSave(true) when
\* there is something to send, performSavePdf and its POST otherwise.
HandleSavePdfClick ==
  /\ ~Navigated
  /\ ~btnDisabled
  /\ Len(net) < MaxRequests
  /\ btnDisabled' = TRUE
  /\ IF Sends
     THEN PerformSave(TRUE, "click", "click")
     ELSE /\ net' = Append(net, Request("POST", <<>>, TRUE, "clickpdf", "click"))
          /\ UNCHANGED saveStatus
  /\ hist' = [hist EXCEPT !.op = "savePdf", !.since = @ /\ ~Sends]
  /\ UNCHANGED <<zoomVars, probe, cacheVars, docVars, dirty, lastSaveError, saveTimeout,
                 scopeVars, backendVars, backPc>>

\* performSavePdf that requests the flatten without saving the markups first
PerformSavePdfNoSave ==
  /\ ~Navigated
  /\ Len(net) < MaxRequests
  /\ btnDisabled' = TRUE
  /\ net' = Append(net, Request("POST", <<>>, TRUE, "pdf", "api"))
  /\ hist' = [hist EXCEPT !.op = "performSavePdf"]
  /\ UNCHANGED <<zoomVars, probe, cacheVars, docVars, saveVars, scopeVars, backendVars, backPc>>

\* save-manager.js performSavePdf up to its first fetch, called through
\* window.PdfEditor.saveManager: a markup save with the flatten skipped when
\* there is something to send, the POST at once otherwise.
PerformSavePdfCall ==
  /\ ~Navigated
  /\ Len(net) < MaxRequests
  /\ btnDisabled' = TRUE
  /\ IF Sends
     THEN PerformSave(TRUE, "pdfsave", "api")
     ELSE /\ net' = Append(net, Request("POST", <<>>, TRUE, "pdf", "api"))
          /\ UNCHANGED saveStatus
  /\ hist' = [hist EXCEPT !.op = "performSavePdf", !.since = @ /\ ~Sends]
  /\ UNCHANGED <<zoomVars, probe, cacheVars, docVars, dirty, lastSaveError, saveTimeout,
                 scopeVars, backendVars, backPc>>

\* save-manager.js performSave called through window.PdfEditor.saveManager:
\* with nothing to send the promise it returns is resolved with true; else
\* it is pending until the response to the PUT arrives.
PerformSaveCall(skipSavePdf) ==
  /\ ~Navigated
  /\ Len(net) < MaxRequests
  /\ PerformSave(skipSavePdf, "save", "performSave")
  /\ probe' = IF Sends
              THEN Call("performSave", <<skipSavePdf>>)
              ELSE [Call("performSave", <<skipSavePdf>>) EXCEPT
                      !.out = TRUE, !.done = TRUE]
  /\ hist' = [hist EXCEPT !.op = "performSave", !.since = @ /\ ~Sends]
  /\ UNCHANGED <<zoomVars, cacheVars, docVars, dirty, lastSaveError,
                 saveTimeout, scopeVars, backendVars, btnDisabled, backPc>>

\* main.js, click on .back-link up to its first await
BackLinkClick ==
  /\ backPc = "idle"
  /\ Len(net) < MaxRequests
  /\ IF Sends
     THEN /\ PerformSave(FALSE, "back", "back")
          /\ backPc' = "awaiting"
     ELSE /\ backPc' = IF saveStatus = "saving" THEN "polling" ELSE "left"
          /\ UNCHANGED <<saveStatus, net>>
  /\ hist' = [hist EXCEPT !.op = "back", !.since = @ /\ ~Sends]
  /\ UNCHANGED <<zoomVars, probe, cacheVars, docVars, dirty, lastSaveError, saveTimeout,
                 scopeVars, backendVars, btnDisabled>>

\* main.js, the beforeunload handler: a keepalive PUT when dirty
BeforeUnload ==
  IF dirty /\ (dirty \/ saveStatus = "saving" \/ saveStatus = "error")
  THEN Append(net, Request("PUT", markups, TRUE, "none", "unload"))
  ELSE net

\* the back link's loop, once saveStatus is no longer 'saving'
BackPoll ==
  /\ backPc = "polling"
  /\ saveStatus # "saving"
  /\ backPc' = "left"
  /\ net' = BeforeUnload
  /\ Note("left")
  /\ UNCHANGED <<zoomVars, probe, cacheVars, docVars, saveVars, scopeVars, backendVars,
                 btnDisabled>>

\* The user closes the tab or leaves the page: beforeunload runs.
CloseTab ==
  /\ ~Navigated
  /\ backPc' = "left"
  /\ net' = BeforeUnload
  /\ Note("unload")
  /\ UNCHANGED <<zoomVars, probe, cacheVars, docVars, saveVars, scopeVars, backendVars,
                 btnDisabled>>

\* The response to a PUT /markups arrives: performSave's then or catch, and
\* the continuation of the caller that awaited it (the back link, the Save
\* PDF handler, or performSavePdf, which throws the save's error when the
\* save resolved false).
PutResponse(i, ok) ==
  /\ ~Navigated
  /\ i \in 1..Len(net)
  /\ net[i].kind = "PUT" /\ net[i].cont # "none"
  /\ LET r == net[i]
         rest == Without(net, i)
         flatten == ok /\ ~r.skip
         pdf == [r EXCEPT !.kind = "POST", !.scope = currentLinked,
                          !.body = <<>>, !.cont = "pdf"]
         afterThen == IF flatten THEN Append(rest, pdf) ELSE rest
     IN /\ lastSaveError' = IF ok THEN lastSaveError ELSE "rejected"
        /\ IF r.cont = "back"
           THEN /\ dirty' = FALSE
                /\ saveStatus' = "saved"
                /\ backPc' = "left"
                /\ btnDisabled' = (flatten \/ btnDisabled)
                /\ net' = afterThen
           ELSE /\ dirty' = IF ok THEN FALSE ELSE dirty
                /\ saveStatus' = IF ok THEN "saved" ELSE "error"
                /\ backPc' = backPc
                /\ IF r.cont = "click"
                   THEN /\ btnDisabled' = ok
                        /\ net' = IF ok
                                  THEN Append(afterThen,
                                         [pdf EXCEPT !.cont = "clickpdf"])
                                  ELSE afterThen
                   ELSE IF r.cont = "pdfsave"
                   THEN /\ btnDisabled' = (ok /\ btnDisabled)
                        /\ net' = IF ok THEN Append(rest, pdf) ELSE rest
                   ELSE /\ btnDisabled' = (flatten \/ btnDisabled)
                        /\ net' = afterThen
  /\ hist' = [hist EXCEPT !.op = IF ok THEN "putOk" ELSE "putFail",
                        !.thrown = IF ~ok /\ net[i].cont = "pdfsave"
                                   THEN lastSaveError' ELSE @]
  /\ probe' = IF net[i].origin = "performSave"
              THEN [probe EXCEPT !.out = ok, !.done = TRUE] ELSE probe
  /\ UNCHANGED <<zoomVars, cacheVars, docVars, saveTimeout, scopeVars,
                 backendVars>>

\* A response to POST /save-pdf whose failure marks the session unsaved.
PostResponseReverts(i, ok) ==
  /\ ~Navigated
  /\ i \in 1..Len(net)
  /\ net[i].kind = "POST"
  /\ net' = Without(net, i)
  /\ lastSaveError' = IF ok THEN lastSaveError ELSE "save failed"
  /\ saveStatus' = IF ok THEN saveStatus ELSE "error"
  /\ dirty' = IF ok THEN dirty ELSE TRUE
  /\ btnDisabled' = FALSE
  /\ hist' = [hist EXCEPT !.op = IF ok THEN "postOk" ELSE "postFail",
                        !.thrown = IF ok THEN @ ELSE lastSaveError']
  /\ UNCHANGED <<zoomVars, probe, cacheVars, docVars, saveTimeout, scopeVars,
                 backendVars, backPc>>

\* The response to POST /save-pdf arrives: performSavePdf's then, catch and
\* finally, and handleSavePdfClick's finally when it awaited the call.
PostResponse(i, ok) ==
  /\ ~Navigated
  /\ i \in 1..Len(net)
  /\ net[i].kind = "POST"
  /\ net' = Without(net, i)
  /\ lastSaveError' = IF ok THEN lastSaveError ELSE "save failed"
  /\ btnDisabled' = FALSE
  /\ hist' = [hist EXCEPT !.op = IF ok THEN "postOk" ELSE "postFail",
                        !.thrown = IF ok THEN @ ELSE lastSaveError']
  /\ UNCHANGED <<zoomVars, probe, cacheVars, docVars, dirty, saveStatus, saveTimeout,
                 scopeVars, backendVars, backPc>>

\* main.js, click on a Restore button of the history popover: the POST to
\* /markups/restore for the scope of the session.
RestoreClick ==
  /\ ~Navigated
  /\ Len(net) < MaxRequests
  /\ net' = Append(net, Request("RESTORE", <<>>, TRUE, "restore", "restore"))
  /\ Note("restore")
  /\ UNCHANGED <<zoomVars, probe, cacheVars, docVars, saveVars, scopeVars,
                 backendVars, btnDisabled, backPc>>

\* context-selector.js loadMarkups up to its fetch
LoadMarkups(rest, origin) ==
  net' = Append(rest, Request("GET", <<>>, TRUE, "load", origin))

\* The response to the restore arrives: a failure is dropped, a success
\* closes the popover and calls loadMarkups.
RestoreResponse(i, ok) ==
  /\ ~Navigated
  /\ i \in 1..Len(net)
  /\ net[i].kind = "RESTORE"
  /\ IF ok THEN LoadMarkups(Without(net, i), "restore")
     ELSE net' = Without(net, i)
  /\ Note(IF ok THEN "restoreOk" ELSE "restoreFail")
  /\ UNCHANGED <<zoomVars, probe, cacheVars, docVars, saveVars, scopeVars,
                 backendVars, btnDisabled, backPc>>

\* What a GET /markups gives: a body with a list, a body whose markups are
\* no array, or no body (the fetch or res.json() rejected).
Outcomes == {"list", "malformed", "failed"}

\* A loadMarkups whose installation goes through the undo stack and the
\* save manager, as an edit does.
LoadMarkupsAsEdit(i, outcome, list) ==
  /\ ~Navigated
  /\ i \in 1..Len(net)
  /\ net[i].kind = "GET"
  /\ net' = Without(net, i)
  /\ LET st == PushUndo(backend, DocState)
     IN Install([st EXCEPT !.m = IF outcome = "list" THEN list ELSE <<>>])
  /\ ScheduleSave
  /\ overlayDom' = RenderMarkups(overlayDom, markups')
  /\ hist' = [hist EXCEPT !.op = IF outcome = "list" THEN "loaded"
                                 ELSE "loadFailed",
                        !.base = markups', !.n = 0]
  /\ UNCHANGED <<zoomVars, probe, cacheVars, scopeVars, backend, drawingRect,
                 btnDisabled, backPc>>

\* A loadMarkups that keeps the list it has when the fetch gives none.
LoadMarkupsKeeping(i, outcome, list) ==
  /\ ~Navigated
  /\ i \in 1..Len(net)
  /\ net[i].kind = "GET"
  /\ net' = Without(net, i)
  /\ markups' = IF outcome = "list" THEN list ELSE markups
  /\ overlayDom' = RenderMarkups(overlayDom, markups')
  /\ hist' = [hist EXCEPT !.op = IF outcome = "list" THEN "loaded"
                                 ELSE "loadFailed",
                        !.base = markups', !.n = 0]
  /\ UNCHANGED <<zoomVars, probe, cacheVars, undoStack, redoStack, saveVars,
                 scopeVars, backend, fabricCanvases, drawingRect,
                 btnDisabled, backPc>>

\* The response to loadMarkups' GET arrives: its then or its catch installs
\* the list, or the empty list, and the overlays are redrawn.
LoadMarkupsResponse(i, outcome, list) ==
  /\ ~Navigated
  /\ i \in 1..Len(net)
  /\ net[i].kind = "GET"
  /\ net' = Without(net, i)
  /\ markups' = IF outcome = "list" THEN list ELSE <<>>
  /\ overlayDom' = RenderMarkups(overlayDom, markups')
  /\ hist' = [hist EXCEPT !.op = IF outcome = "list" THEN "loaded"
                                 ELSE "loadFailed",
                        !.base = markups', !.n = 0]
  /\ UNCHANGED <<zoomVars, probe, cacheVars, undoStack, redoStack, saveVars,
                 scopeVars, backend, fabricCanvases, drawingRect,
                 btnDisabled, backPc>>

----------------------------------------------------------------------------
(* The session scope: the context selector's onchange, the server that     *)
(* keeps a list for each scope, and the editing steps with the scope each  *)
(* stack entry was captured under.                                         *)

\* The scopes of a document linked to one task
Scopes == {DocLevel, Task3}

EmptyHistory == [u |-> <<>>, r |-> <<>>]

\* An onchange that keeps the two stacks.
ContextChangeKeepingHistory(sel) ==
  /\ ~Navigated
  /\ loadPc = "ready"
  /\ sel = DocLevel \/ InSeq(sel, linkedOptions)
  /\ sel # currentLinked
  /\ Len(net) < MaxRequests
  /\ currentLinked' = sel
  /\ net' = Append(net, [Request("GET", <<>>, TRUE, "load", "context")
                           EXCEPT !.scope = sel])
  /\ Note("context")
  /\ UNCHANGED <<viewVars, modeVars, server, listScope, captured, heap, drawingPathPoints, raster,
                 probe,
                 cacheVars, docVars, saveVars, linkedOptions, config,
                 docLinked, loadPc, backendVars, btnDisabled, backPc>>

\* context-selector.js contextSelect.onchange: the scope becomes the
\* selected option, both stacks are emptied and loadMarkups sends its GET
\* for the new scope.
ContextChange(sel) ==
  /\ ~Navigated
  /\ loadPc = "ready"
  /\ sel = DocLevel \/ InSeq(sel, linkedOptions)
  /\ sel # currentLinked
  /\ Len(net) < MaxRequests
  /\ currentLinked' = sel
  /\ undoStack' = <<>>
  /\ redoStack' = <<>>
  /\ captured' = EmptyHistory
  /\ net' = Append(net, [Request("GET", <<>>, TRUE, "load", "context")
                           EXCEPT !.scope = sel])
  /\ Note("context")
  /\ UNCHANGED <<viewVars, modeVars, server, listScope, heap, drawingPathPoints, raster,
                 probe, cacheVars,
                 markups, saveVars, linkedOptions, config, docLinked, loadPc,
                 backendVars, btnDisabled, backPc>>

\* The response to loadMarkups' GET, from a server that keeps a list for
\* each scope: the list of the scope the request named is installed, or
\* the empty list when the fetch failed.
ScopeLoadResponse(i, outcome) ==
  /\ ~Navigated
  /\ i \in 1..Len(net)
  /\ net[i].kind = "GET"
  /\ net' = Without(net, i)
  /\ markups' = IF outcome = "list" THEN server[net[i].scope] ELSE <<>>
  /\ listScope' = net[i].scope
  /\ overlayDom' = RenderMarkups(overlayDom, markups')
  /\ hist' = [hist EXCEPT !.op = IF outcome = "list" THEN "loaded"
                                 ELSE "loadFailed",
                        !.base = markups', !.n = 0]
  /\ UNCHANGED <<viewVars, modeVars, server, captured, heap, drawingPathPoints, raster,
                 probe, cacheVars,
                 undoStack, redoStack, saveVars, scopeVars, backend,
                 fabricCanvases, drawingRect, btnDisabled, backPc>>

\* loadPdf's own loadMarkups, for the scope the load has settled on
ScopeLoadPdfMarkupsDone(ok) ==
  /\ ~Navigated
  /\ loadPc = "markups"
  /\ markups' = IF ok /\ currentLinked \in DOMAIN server
                 THEN server[currentLinked] ELSE <<>>
  /\ listScope' = currentLinked
  /\ overlayDom' = RenderMarkups(overlayDom, markups')
  /\ loadPc' = "render"
  /\ pageDimensions' = <<>>
  /\ hist' = [hist EXCEPT !.op = "markups", !.base = markups']
  /\ UNCHANGED <<scale, savedZoom, pdfDoc, view, rebuilds, building,
                 pageSize, modeVars, server, captured, heap, drawingPathPoints, raster,
                 probe, cacheVars,
                 undoStack, redoStack, saveVars, currentLinked,
                 linkedOptions, config, docLinked, backend, fabricCanvases,
                 drawingRect, netVars>>

\* The server handles a PUT /markups: the body becomes the list of the
\* scope in the request's URL.
ServerAccepts(i) ==
  /\ i \in 1..Len(net)
  /\ net[i].kind = "PUT" /\ ~net[i].served
  /\ net[i].scope \in DOMAIN server
  /\ server' = [server EXCEPT ![net[i].scope] = net[i].body]
  /\ net' = [net EXCEPT ![i].served = TRUE]
  /\ Note("served")
  /\ UNCHANGED <<viewVars, modeVars, listScope, captured, heap, drawingPathPoints, raster,
                 probe, cacheVars,
                 docVars, saveVars, scopeVars, backendVars, btnDisabled,
                 backPc>>

\* The response to a PUT: success when the server has handled it
ScopePutResponse(i) ==
  /\ i \in 1..Len(net)
  /\ PutResponse(i, net[i].served)

\* A gesture of the overlay that creates a markup (addMarkup)
ScopeCreate(pageIndex, m) ==
  /\ CanEdit
  /\ pageIndex \in DOMAIN overlayDom /\ pageIndex \notin DOMAIN fabricCanvases
  /\ Len(undoStack) < MaxUndo
  /\ m.id \notin UsedIds /\ m.page = pageIndex
  /\ AddMarkup(m)
  /\ captured' = [u |-> Append(captured.u, currentLinked), r |-> <<>>]
  /\ hist' = [hist EXCEPT !.op = "create", !.n = @ + 1, !.since = TRUE]
  /\ UNCHANGED <<viewVars, modeVars, server, listScope, heap, drawingPathPoints, raster,
                 probe, cacheVars,
                 scopeVars, netVars, backend, drawingRect>>

\* undoManager.undo
ScopeUndo ==
  /\ CanEdit
  /\ IF undoStack = <<>>
     THEN UNCHANGED <<docVars, fabricCanvases, overlayDom, saveVars, captured>>
     ELSE /\ Install(Undo(backend, DocState))
          /\ overlayDom' = IF backend = "overlay"
                           THEN RenderMarkups(overlayDom, markups')
                           ELSE overlayDom
          /\ ScheduleSave
          /\ captured' = [u |-> Front(captured.u),
                          r |-> Append(captured.r, currentLinked)]
  /\ hist' = [hist EXCEPT !.op = "undo", !.base = markups', !.n = 0,
                        !.since = @ \/ undoStack # <<>>]
  /\ UNCHANGED <<viewVars, modeVars, server, listScope, heap, drawingPathPoints, raster,
                 probe, cacheVars,
                 scopeVars, netVars, backend, drawingRect>>

\* undoManager.redo
ScopeRedo ==
  /\ CanEdit
  /\ IF redoStack = <<>>
     THEN UNCHANGED <<docVars, fabricCanvases, overlayDom, saveVars, captured>>
     ELSE /\ Install(Redo(backend, DocState))
          /\ overlayDom' = IF backend = "overlay"
                           THEN RenderMarkups(overlayDom, markups')
                           ELSE overlayDom
          /\ ScheduleSave
          /\ captured' = [u |-> Append(captured.u, currentLinked),
                          r |-> Front(captured.r)]
  /\ hist' = [hist EXCEPT !.op = "redo", !.base = markups', !.n = 0,
                        !.since = @ \/ redoStack # <<>>]
  /\ UNCHANGED <<viewVars, modeVars, server, listScope, heap, drawingPathPoints, raster,
                 probe, cacheVars,
                 scopeVars, netVars, backend, drawingRect>>

----------------------------------------------------------------------------
\* pdf-viewer.js loadPdf: the file is fetched and parsed, or the catch shows
\* the iframe fallback.
FileLoaded(ok) ==
  /\ ~Navigated
  /\ loadPc = "file"
  /\ loadPc' = IF ok THEN "options" ELSE "fallback"
  /\ pdfDoc' = ok
  /\ scale' = IF ok THEN RestoreZoom(scale, savedZoom) ELSE scale
  /\ view' = IF ok THEN view ELSE "iframe"
  /\ Note("file")
  /\ UNCHANGED <<savedZoom, rebuilds, buildVars, probe, cacheVars, docVars,
                 saveVars, currentLinked, linkedOptions, config, docLinked,
                 backendVars, netVars>>

\* loadLinkedOptions settles: the options are the document's links, or none
\* when the fetch failed; a scope that is not an option is reset; then
\* loadPdf selects the first option for a session without a scope.
LoadLinkedOptionsDone(ok) ==
  /\ ~Navigated
  /\ loadPc = "options"
  /\ LET options == IF ok THEN docLinked ELSE <<>>
         hasContext == currentLinked.t # Null /\ currentLinked.i # Null
         validated == IF hasContext /\ ~InSeq(currentLinked, options)
                      THEN DocLevel ELSE currentLinked
     IN /\ linkedOptions' = options
        /\ currentLinked' = IF validated = DocLevel /\ options # <<>>
                            THEN Head(options) ELSE validated
  /\ loadPc' = "markups"
  /\ Note("options")
  /\ UNCHANGED <<zoomVars, probe, cacheVars, docVars, saveVars, config, docLinked,
                 backendVars, netVars>>

\* loadPdf after its loadMarkups: renderPdf starts, and buildPageStructure
\* empties pageDimensions and suspends at its first getPage
LoadPdfMarkupsDone(ok, list) ==
  /\ ~Navigated
  /\ loadPc = "markups"
  /\ markups' = IF ok THEN list ELSE <<>>
  /\ overlayDom' = RenderMarkups(overlayDom, markups')
  /\ loadPc' = "render"
  /\ pageDimensions' = <<>>
  /\ hist' = [hist EXCEPT !.op = "markups", !.base = markups']
  /\ UNCHANGED <<scale, savedZoom, pdfDoc, view, rebuilds, building, pageSize, extVars,
                 probe, cacheVars, undoStack, redoStack, saveVars,
                 currentLinked, linkedOptions, config, docLinked, backend,
                 fabricCanvases, drawingRect, netVars>>

\* renderPdf of loadPdf: a getPage rejected and the catch shows the iframe;
\* or the loop of buildPageStructure has measured the pages at the scale of
\* the session, with its last one pushed now, and the placeholders are
\* built from the first numPages entries of pageDimensions.
BuildPageStructureDone(ok) ==
  /\ ~Navigated
  /\ loadPc = "render"
  /\ loadPc' = IF ok THEN "ready" ELSE "fallback"
  /\ view' = IF ok THEN "pages" ELSE "iframe"
  /\ pageDimensions' =
       IF ok THEN pageDimensions \o Measured(pageSize, numPages, scale)
       ELSE pageDimensions
  /\ pageInfos' = IF ok THEN Placeholders(pageDimensions', numPages)
                  ELSE pageInfos
  /\ Note("structure")
  /\ UNCHANGED <<scale, savedZoom, pdfDoc, rebuilds, building, pageSize, extVars,
                 probe, numPages, renderTasks, viewTop, observed, docVars,
                 saveVars, currentLinked, linkedOptions, config, docLinked,
                 backendVars, netVars>>

\* zoomIn and zoomOut: the scale moves one step and is clamped, it is written
\* to sessionStorage, and with a parsed document renderPdf starts, which
\* suspends in buildPageStructure at its first getPage.
Zoom(next, op) ==
  /\ ~Navigated
  /\ scale' = next
  /\ savedZoom' = Stored(next)
  /\ IF pdfDoc
     THEN /\ rebuilds < MaxRebuilds /\ rebuilds' = rebuilds + 1
          /\ building' = Append(building, 0)
          /\ pageDimensions' = <<>>
     ELSE UNCHANGED <<rebuilds, building, pageDimensions>>
  /\ Note(op)
  /\ UNCHANGED <<pdfDoc, view, pageSize, extVars, probe, cacheVars, docVars, saveVars,
                 scopeVars, backendVars, netVars>>

ZoomIn == Zoom(Min2(MaxScale, scale + ZoomStep), "zoomIn")

ZoomOut == Zoom(Max2(MinScale, scale - ZoomStep), "zoomOut")

\* A getPage of a zoom's buildPageStructure resolves, not its last one: the
\* page's dimensions at the scale of that moment are pushed onto
\* pageDimensions, and the loop suspends at the next getPage.
GetPageResolved(b) ==
  /\ ~Navigated
  /\ b \in 1..Len(building)
  /\ building[b] + 1 < numPages
  /\ pageDimensions' =
       Append(pageDimensions, Viewport(pageSize, building[b] + 1, scale))
  /\ building' = [building EXCEPT ![b] = @ + 1]
  /\ Note("measured")
  /\ UNCHANGED <<scale, savedZoom, pdfDoc, view, rebuilds, pageSize, extVars, probe,
                 cacheVars, docVars, saveVars, scopeVars, backendVars,
                 netVars>>

\* A build that creates its observer over whatever descriptors it has.
RebuildObservesPartial(b, ok) ==
  /\ ~Navigated
  /\ b \in 1..Len(building)
  /\ rebuilds' = rebuilds - 1
  /\ building' = [k \in 1..(Len(building) - 1) |->
                    IF k < b THEN building[k] ELSE building[k + 1]]
  /\ IF ok
     THEN /\ building[b] + 1 = numPages
          /\ pageDimensions' =
               Append(pageDimensions, Viewport(pageSize, numPages, scale))
          /\ pageInfos' = Placeholders(pageDimensions',
                                       Min2(Len(pageDimensions'), numPages))
          /\ renderTasks' = [p \in 0..(numPages - 1) |-> 0]
          /\ overlayDom' = <<>>
          /\ view' = "pages" /\ observed' = FALSE
     ELSE UNCHANGED <<view, pageInfos, renderTasks, observed, overlayDom,
                      pageDimensions>>
  /\ Note(IF ~ok THEN "rebuildFailed" ELSE "rebuilt")
  /\ UNCHANGED <<scale, savedZoom, pdfDoc, pageSize, extVars, probe, numPages, viewTop,
                 docVars, saveVars, scopeVars, backend, fabricCanvases,
                 drawingRect, netVars>>

\* buildPageStructure after the awaits of build b.  The getPage rejected
\* (the rejection is not handled): nothing changes.  Or its last getPage
\* resolved: the dimensions are pushed, the container is emptied and a
\* placeholder is built for each page from the first numPages entries of
\* pageDimensions, with a new observer; the page descriptors that render
\* tasks in flight hold are no longer in pageInfos.  With fewer entries
\* than pages the loop throws at the first missing one: the container
\* stays empty, pageInfos holds the descriptors pushed so far and the
\* observer is the old one.
RebuildDone(b, ok) ==
  /\ ~Navigated
  /\ b \in 1..Len(building)
  /\ rebuilds' = rebuilds - 1
  /\ building' = [k \in 1..(Len(building) - 1) |->
                    IF k < b THEN building[k] ELSE building[k + 1]]
  /\ IF ok
     THEN /\ building[b] + 1 = numPages
          /\ pageDimensions' =
               Append(pageDimensions, Viewport(pageSize, numPages, scale))
          /\ pageInfos' = Placeholders(pageDimensions',
                                       Min2(Len(pageDimensions'), numPages))
          /\ renderTasks' = [p \in 0..(numPages - 1) |-> 0]
          /\ overlayDom' = <<>>
          /\ IF Len(pageDimensions') >= numPages
             THEN view' = "pages" /\ observed' = FALSE
             ELSE view' = "blank" /\ observed' = observed
     ELSE UNCHANGED <<view, pageInfos, renderTasks, observed, overlayDom,
                      pageDimensions>>
  /\ Note(IF ~ok THEN "rebuildFailed"
          ELSE IF view' = "pages" THEN "rebuilt" ELSE "rebuildThrew")
  /\ UNCHANGED <<scale, savedZoom, pdfDoc, pageSize, extVars, probe, numPages, viewTop,
                 docVars, saveVars, scopeVars, backend, fabricCanvases,
                 drawingRect, netVars>>

ZoomRebuildDone(ok) == \E b \in 1..Len(building) : RebuildDone(b, ok)

\* A one-page document being opened, with any scope in the page's config.
InitSession ==
  /\ numPages = SessionDocPages
  /\ markups = <<>>
  /\ backend = "overlay"
  /\ config \in Configs
  /\ currentLinked = config
  /\ docLinked \in LinkLists
  /\ loadPc = "file"
  /\ InitState

NextSession ==
  \/ \E ok \in BOOLEAN : FileLoaded(ok)
  \/ \E ok \in BOOLEAN : LoadLinkedOptionsDone(ok)
  \/ \E ok \in BOOLEAN, list \in SessionLists : LoadPdfMarkupsDone(ok, list)
  \/ \E ok \in BOOLEAN : BuildPageStructureDone(ok)
  \/ ObserveInitial
  \/ \E p \in 0..(numPages - 1) : RenderPageDone(p)
  \/ \E p \in 0..(numPages - 1), id \in Ids :
       OverlayCreate(p, Markup(id, p, "highlight", Red, Null))
  \/ UndoClick
  \/ TimerFires
  \/ RetryClick
  \/ HandleSavePdfClick
  \/ BackLinkClick
  \/ BackPoll
  \/ CloseTab
  \/ \E i \in 1..MaxRequests, ok \in BOOLEAN : PutResponse(i, ok)
  \/ \E i \in 1..MaxRequests, ok \in BOOLEAN : PostResponse(i, ok)

SpecSession == InitSession /\ [][NextSession]_vars

\* The save manager of a loaded session in any of its states: a list of the
\* server, saved or not, a timer pending or not, any save status.
InitSavePdf ==
  /\ numPages = SessionDocPages
  /\ pageSize = [i \in 1..numPages |-> "portrait"]
  /\ InitExt
  /\ pageDimensions = Measured(pageSize, numPages, DefaultScale)
  /\ building = <<>>
  /\ pageInfos = Placeholders(pageDimensions, numPages)
  /\ renderTasks = [p \in 0..(numPages - 1) |-> 0]
  /\ viewTop = 0
  /\ observed = FALSE
  /\ markups \in ServerLists
  /\ undoStack = <<>>
  /\ redoStack = <<>>
  /\ dirty \in BOOLEAN
  /\ saveStatus \in {"idle", "saving", "saved", "error"}
  /\ lastSaveError = IF saveStatus = "error" THEN "rejected" ELSE ""
  /\ saveTimeout \in {0, 1}
  /\ config = DocLevel /\ currentLinked = DocLevel /\ docLinked = <<>>
  /\ loadPc = "ready"
  /\ backend = "overlay"
  /\ overlayDom = <<>>
  /\ fabricCanvases = <<>>
  /\ drawingRect = NoRect
  /\ net = <<>>
  /\ btnDisabled = FALSE
  /\ backPc = "idle"
  /\ scale = DefaultScale
  /\ savedZoom = NoItem
  /\ pdfDoc = TRUE
  /\ view = "pages"
  /\ rebuilds = 0
  /\ probe = NoCall
  /\ hist = [op |-> "init", base |-> markups, n |-> 0, since |-> dirty,
             thrown |-> ""]

NextSavePdf ==
  \/ PerformSavePdfCall
  \/ HandleSavePdfClick
  \/ TimerFires
  \/ \E i \in 1..MaxRequests, ok \in BOOLEAN : PutResponse(i, ok)
  \/ \E i \in 1..MaxRequests, ok \in BOOLEAN : PostResponse(i, ok)

SpecSavePdf == InitSavePdf /\ [][NextSavePdf]_vars

\* The save manager with performSave called directly and by the timer.
NextPerformSave ==
  \/ \E skip \in BOOLEAN : PerformSaveCall(skip)
  \/ TimerFires
  \/ \E i \in 1..MaxRequests, ok \in BOOLEAN : PutResponse(i, ok)
  \/ \E i \in 1..MaxRequests, ok \in BOOLEAN : PostResponse(i, ok)

SpecPerformSave == InitSavePdf /\ [][NextPerformSave]_vars

\* A loaded one-page document with the list of its scope, edited and
\* saved by the timer, with versions restored from the history popover.
InitRestore ==
  /\ numPages = SessionDocPages
  /\ markups \in SessionLists
  /\ backend = "overlay"
  /\ config = DocLevel /\ currentLinked = DocLevel /\ docLinked = <<>>
  /\ loadPc = "ready"
  /\ InitState

NextRestore ==
  \/ ObserveInitial
  \/ \E p \in 0..(numPages - 1) : RenderPageDone(p)
  \/ \E p \in 0..(numPages - 1), id \in Ids :
       OverlayCreate(p, Markup(id, p, "highlight", Red, Null))
  \/ TimerFires
  \/ \E i \in 1..MaxRequests, ok \in BOOLEAN : PutResponse(i, ok)
  \/ \E i \in 1..MaxRequests, ok \in BOOLEAN : PostResponse(i, ok)
  \/ RestoreClick
  \/ \E i \in 1..MaxRequests, ok \in BOOLEAN : RestoreResponse(i, ok)
  \/ \E i \in 1..MaxRequests, outcome \in Outcomes, list \in SessionLists :
       LoadMarkupsResponse(i, outcome, list)

SpecRestore == InitRestore /\ [][NextRestore]_vars

\* The lists the server holds when the page is opened
StoredLists ==
  [s \in Scopes |-> IF s = DocLevel
                    THEN <<Markup("m0", 0, "highlight", Red, Null)>>
                    ELSE <<Markup("t0", 0, "comment", Null, "note")>>]

\* A one-page document with or without a linked task, its file parsed, being
\* opened with any scope in the page's config against a server that holds a
\* list for each scope; then edited while the user changes the scope.
InitScope ==
  /\ numPages = SessionDocPages
  /\ markups = <<>>
  /\ backend = "overlay"
  /\ config \in Configs
  /\ currentLinked = config
  /\ docLinked \in LinkLists
  /\ loadPc = "options"
  /\ linkedOptions = <<>>
  /\ InitPage([i \in 1..numPages |-> "portrait"])
  /\ isEditMode = TRUE
  /\ popover = Null
  /\ server = StoredLists
  /\ listScope = currentLinked
  /\ captured = EmptyHistory
  /\ heap = NoHeap
  /\ drawingPathPoints = NoPath
  /\ raster = NoRaster
  /\ probe = NoCall

NextScope ==
  \/ \E ok \in BOOLEAN : LoadLinkedOptionsDone(ok)
  \/ \E ok \in BOOLEAN : ScopeLoadPdfMarkupsDone(ok)
  \/ BuildPageStructureDone(TRUE)
  \/ ObserveInitial
  \/ \E p \in 0..(numPages - 1) : RenderPageDone(p)
  \/ \E p \in 0..(numPages - 1), id \in Ids :
       ScopeCreate(p, Markup(id, p, "highlight", Red, Null))
  \/ ScopeUndo
  \/ ScopeRedo
  \/ \E sel \in Scopes : ContextChange(sel)
  \/ \E i \in 1..MaxRequests, outcome \in {"list", "failed"} :
       ScopeLoadResponse(i, outcome)

SpecScope == InitScope /\ [][NextScope]_vars

\* The same document, loaded under either scope with the list the server
\* holds for it, edited and saved by the debounce timer while the user
\* changes the scope.
InitScopeSave ==
  /\ numPages = SessionDocPages
  /\ backend = "overlay"
  /\ config = DocLevel
  /\ currentLinked \in Scopes
  /\ docLinked = <<Task3>>
  /\ loadPc = "ready"
  /\ markups = StoredLists[currentLinked]
  /\ linkedOptions = docLinked
  /\ InitPage([i \in 1..numPages |-> "portrait"])
  /\ isEditMode = TRUE
  /\ popover = Null
  /\ server = StoredLists
  /\ listScope = currentLinked
  /\ captured = EmptyHistory
  /\ heap = NoHeap
  /\ drawingPathPoints = NoPath
  /\ raster = NoRaster
  /\ probe = NoCall

NextScopeSave ==
  \/ ObserveInitial
  \/ \E p \in 0..(numPages - 1) : RenderPageDone(p)
  \/ \E p \in 0..(numPages - 1), id \in Ids :
       ScopeCreate(p, Markup(id, p, "highlight", Red, Null))
  \/ ScopeUndo
  \/ \E sel \in Scopes : ContextChange(sel)
  \/ \E i \in 1..MaxRequests, outcome \in {"list", "failed"} :
       ScopeLoadResponse(i, outcome)
  \/ TimerFires
  \/ \E i \in 1..MaxRequests : ServerAccepts(i)
  \/ \E i \in 1..MaxRequests : ScopePutResponse(i)

SpecScopeSave == InitScopeSave /\ [][NextScopeSave]_vars

\* A one-page document being opened in a tab whose sessionStorage holds any
\* zoom item.
InitZoom ==
  /\ numPages = SessionDocPages
  /\ markups = <<>>
  /\ backend = "overlay"
  /\ config = DocLevel /\ currentLinked = DocLevel /\ docLinked = <<>>
  /\ loadPc = "file"
  /\ pageSize = [i \in 1..numPages |-> "portrait"]
  /\ InitExt
  /\ pageDimensions = <<>>
  /\ building = <<>>
  /\ pageInfos = Placeholders(Measured(pageSize, numPages, DefaultScale),
                              numPages)
  /\ renderTasks = [p \in 0..(numPages - 1) |-> 0]
  /\ viewTop = 0
  /\ observed = FALSE
  /\ undoStack = <<>>
  /\ redoStack = <<>>
  /\ dirty = FALSE
  /\ saveStatus = "idle"
  /\ lastSaveError = ""
  /\ saveTimeout = 0
  /\ overlayDom = <<>>
  /\ fabricCanvases = <<>>
  /\ drawingRect = NoRect
  /\ net = <<>>
  /\ btnDisabled = FALSE
  /\ backPc = "idle"
  /\ scale = DefaultScale
  /\ savedZoom \in SavedZooms
  /\ pdfDoc = FALSE
  /\ view = "loading"
  /\ rebuilds = 0
  /\ probe = NoCall
  /\ hist = [op |-> "init", base |-> markups, n |-> 0, since |-> FALSE,
             thrown |-> ""]

NextZoom ==
  \/ \E ok \in BOOLEAN : FileLoaded(ok)
  \/ \E ok \in BOOLEAN : LoadLinkedOptionsDone(ok)
  \/ \E ok \in BOOLEAN : LoadPdfMarkupsDone(ok, <<>>)
  \/ \E ok \in BOOLEAN : BuildPageStructureDone(ok)
  \/ ZoomIn
  \/ ZoomOut
  \/ \E ok \in BOOLEAN : ZoomRebuildDone(ok)
  \/ ObserveInitial
  \/ \E p \in 0..(numPages - 1) : RenderPageDone(p)

SpecZoom == InitZoom /\ [][NextZoom]_vars

\* The long document with all its pages rendered but up to MaxInFlight of
\* them, whose renders are in flight, and any viewport; the eviction
\* functions are called with the pages of the viewport as the visible set.
InitEvict ==
  /\ numPages = CacheDocPages
  /\ markups = <<>>
  /\ backend = "overlay"
  /\ config = DocLevel /\ currentLinked = DocLevel /\ docLinked = <<>>
  /\ loadPc = "ready"
  /\ pageSize = [i \in 1..numPages |-> "portrait"]
  /\ InitExt
  /\ pageDimensions = Measured(pageSize, numPages, DefaultScale)
  /\ building = <<>>
  /\ \E loading \in SUBSET (0..(numPages - 1)) :
       /\ Cardinality(loading) <= MaxInFlight
       /\ pageInfos = [i \in 1..numPages |->
                         [rendered |-> (i - 1) \notin loading,
                          dim |-> pageDimensions[i]]]
       /\ renderTasks = [p \in 0..(numPages - 1) |->
                           IF p \in loading THEN 1 ELSE 0]
       /\ overlayDom = [p \in (0..(numPages - 1)) \ loading |-> <<>>]
  /\ viewTop \in 0..(numPages - ViewportPages)
  /\ observed = TRUE
  /\ undoStack = <<>>
  /\ redoStack = <<>>
  /\ dirty = FALSE
  /\ saveStatus = "idle"
  /\ lastSaveError = ""
  /\ saveTimeout = 0
  /\ fabricCanvases = <<>>
  /\ drawingRect = NoRect
  /\ net = <<>>
  /\ btnDisabled = FALSE
  /\ backPc = "idle"
  /\ scale = DefaultScale
  /\ savedZoom = NoItem
  /\ pdfDoc = TRUE
  /\ view = "pages"
  /\ rebuilds = 0
  /\ probe = [Call("evictFurthestFromVisible", <<Window(viewTop)>>) EXCEPT
                !.out = NoPage]
  /\ hist = [op |-> "init", base |-> markups, n |-> 0, since |-> FALSE,
             thrown |-> ""]

NextEvict ==
  \/ EvictFurthestCall
  \/ \E p \in 0..(numPages - 1) : EvictPageCall(p)

SpecEvict == InitEvict /\ [][NextEvict]_vars

\* A loaded document of BuildDocPages pages of any sizes, zoomed in and out
\* while its pages render.
InitBuild ==
  /\ numPages = BuildDocPages
  /\ markups = <<>>
  /\ backend = "overlay"
  /\ config = DocLevel /\ currentLinked = DocLevel /\ docLinked = <<>>
  /\ loadPc = "ready"
  /\ \E sizes \in [1..BuildDocPages -> Boxes] : InitViewer(sizes)
  /\ probe = NoCall

NextBuild ==
  \/ ZoomIn
  \/ ZoomOut
  \/ \E b \in 1..MaxRebuilds : GetPageResolved(b)
  \/ \E ok \in BOOLEAN : ZoomRebuildDone(ok)
  \/ ObserveInitial
  \/ \E p \in 0..(numPages - 1) : RenderPageDone(p)

SpecBuild == InitBuild /\ [][NextBuild]_vars

\* The editor of a loaded one-page document, nothing edited yet: the
\* state in which the functions of markup-tools.js are called below.
InitTools ==
  /\ numPages = SessionDocPages
  /\ markups = <<>>
  /\ backend = "overlay"
  /\ config = DocLevel /\ currentLinked = DocLevel /\ docLinked = <<>>
  /\ loadPc = "ready"
  /\ InitEditor

\* Lists with one markup of each of the four variants on the first page, in
\* any of two colours and texts.
VariantLists ==
  {<<Markup("h", 0, "highlight", hc, Null), Markup("i", 0, "ink", ic, Null),
     Markup("t", 0, "text", Black, tt), Markup("c", 0, "comment", Null, ct)>> :
     hc \in {DefaultHighlight, Red}, ic \in {Black, Red},
     tt \in {"label", ""}, ct \in {"note", ""}}

\* A loaded document whose list has one markup of each variant, in either
\* backend, before its page is rendered.
InitRoundTrip ==
  /\ numPages = SessionDocPages
  /\ markups \in VariantLists
  /\ backend \in {"overlay", "canvas"}
  /\ config = DocLevel /\ currentLinked = DocLevel /\ docLinked = <<>>
  /\ loadPc = "ready"
  /\ InitState

NextRoundTrip ==
  \/ ObserveInitial
  \/ \E p \in 0..(numPages - 1) : RenderPageDone(p)
  \/ \E p \in 0..(numPages - 1) : InitFabricForPage(p)

SpecRoundTrip == InitRoundTrip /\ [][NextRoundTrip]_vars

\* The overlay gestures at any of PointerPositions, on a rendered page.
InitGesture == InitTools /\ probe = NoCall

NextGesture ==
  \/ ObserveInitial
  \/ \E p \in 0..(numPages - 1) : RenderPageDone(p)
  \/ \E p \in 0..(numPages - 1), id \in Ids, nx, ny \in PointerPositions :
       OverlayCommentClick(p, id, nx, ny)
  \/ \E p \in 0..(numPages - 1), id \in Ids, nx, ny \in PointerPositions :
       OverlayTextClick(p, id, nx, ny)
  \/ \E p \in 0..(numPages - 1), id \in Ids :
       \E x1, y1, x2, y2 \in PointerPositions :
         FinishInkStroke(p, id, <<<<x1, y1>>, <<x2, y2>>>>)
  \/ \E p \in 0..(numPages - 1), id \in Ids :
       \E x1, y1, x2, y2 \in PointerPositions :
         OverlayHighlightUp(p, id, <<x1, y1>>, <<x2, y2>>)

SpecGesture == InitGesture /\ [][NextGesture]_vars

\* decimatePoints called with any list of up to MaxLen points and any
\* target count up to MaxPts.
InitDecimate ==
  /\ InitTools
  /\ probe \in {Call("decimatePoints", <<pts, m>>) :
                  pts \in PointSeqs, m \in 0..MaxPts}

NextDecimate == DecimateCall

\* normalizeBounds called with any rectangle of whole pixels, in or left of
\* the page, and any page size of PageSizes.
InitNormalize ==
  /\ InitTools
  /\ probe \in {Call("normalizeBounds", <<x, y, w, h, pw, ph>>) :
                  x \in (-1)..MaxPixel, y \in 0..MaxPixel,
                  w \in 0..MaxPixel, h \in 0..MaxPixel,
                  pw \in PageSizes, ph \in PageSizes}

NextNormalize == NormalizeCall

SpecNormalize == InitNormalize /\ [][NextNormalize]_vars

SpecDecimate == InitDecimate /\ [][NextDecimate]_vars

----------------------------------------------------------------------------
(* The claims.                                                             *)

RenderedCount == Len(GetRenderedPageIndices(pageInfos))

\* C1: at every moment the number of page descriptors in rendered state is
\* at most the capacity, PAGE_CACHE_SIZE.
C1_RenderedAtMostCapacity == RenderedCount <= PAGE_CACHE_SIZE

InFlight(kind) == {i \in 1..Len(net) : net[i].kind = kind}

\* C2: a mutation made while a PUT /markups is in flight is not lost: when
\* that PUT succeeds and the list was mutated after the last send (hist.since),
\* dirty is true afterwards, so that the next timer sends the mutation.
C2_MutationDuringSaveKept ==
  [][hist'.op = "putOk" /\ hist.since => dirty']_vars

\* C3: at most one PUT /markups issued by performSave is in flight.
C3_OnePutInFlight ==
  Cardinality({i \in InFlight("PUT") : net[i].origin # "unload"}) <= 1

\* C4: no flatten POST is issued as a consequence of a performSave started
\* by the debounce timer.
C4_AutosaveSkipsFlatten ==
  \A i \in InFlight("POST") : net[i].origin # "timer"

\* C5: dirty goes from true to false, and saveStatus becomes 'saved', only
\* when a PUT /markups succeeded; after a failed PUT saveStatus is 'error',
\* the message is kept and dirty is still true.
C5_DirtyClearedOnlyBySuccess ==
  [][/\ (dirty /\ ~dirty' => hist'.op = "putOk")
     /\ (saveStatus # "saved" /\ saveStatus' = "saved" => hist'.op = "putOk")
     /\ (hist'.op = "putFail"
           => /\ saveStatus' = "error"
              /\ lastSaveError' # ""
              /\ (dirty => dirty'))]_vars

RECURSIVE UndoN(_, _, _)
UndoN(b, st, n) == IF n = 0 THEN st ELSE UndoN(b, Undo(b, st), n - 1)

RECURSIVE RedoN(_, _, _)
RedoN(b, st, n) == IF n = 0 THEN st ELSE RedoN(b, Redo(b, st), n - 1)

\* C6: after N create/delete operations on the list hist.base, N undos give
\* hist.base back, and N redos after them give the list before the undos.
C6_UndoRedoRoundTrip ==
  LET undone == UndoN(backend, DocState, hist.n)
      redone == RedoN(backend, undone, hist.n)
  IN /\ undone.m = hist.base
     /\ redone.m = markups

UserOps == {"create", "delete", "edit"}

\* C7: right after a user operation that changed the canonical list, the top
\* of the undo stack is the complete list from before the operation and the
\* redo stack is empty.
C7_SnapshotBeforeMutation ==
  [][hist'.op \in UserOps /\ markups' # markups
       => /\ undoStack' # <<>>
          /\ Last(undoStack') = markups
          /\ redoStack' = <<>>]_vars

\* What the active backend of a rendered page shows: the canvas where the
\* page has one, the overlay otherwise.
ShowsCanonical(pageIndex) ==
  IF pageIndex \in DOMAIN fabricCanvases
  THEN fabricCanvases[pageIndex] = LoadPageObjects(markups, pageIndex)
  ELSE overlayDom[pageIndex] = SelectSeq(markups, LAMBDA m : m.page = pageIndex)

\* C8: after undo() or redo() with a non-empty source stack, the popped
\* snapshot is the canonical list and every rendered page shows exactly the
\* canonical markups of that page.
C8_UndoInstallsSnapshot ==
  [][/\ (hist'.op = "undo" /\ undoStack # <<>>
           => markups' = Last(undoStack))
     /\ (hist'.op = "redo" /\ redoStack # <<>>
           => markups' = Last(redoStack))
     /\ ((hist'.op = "undo" /\ undoStack # <<>>)
          \/ (hist'.op = "redo" /\ redoStack # <<>>)
           => \A p \in DOMAIN overlayDom' : ShowsCanonical(p)')]_vars

Loaded == loadPc \in {"markups", "render", "ready"}

\* C12: mutations with no timer firing between them leave one pending timer,
\* and when it fires one PUT /markups is sent, whose body is the list after
\* the last of them.
C12_DebounceCollapses ==
  [][/\ (hist'.op \in UserOps \cup {"undo", "redo"} /\ docVars' # docVars
           => saveTimeout' = 1)
     /\ (hist'.op = "timer" /\ hist.since
           => /\ Len(net') = Len(net) + 1
              /\ net'[Len(net')].kind = "PUT"
              /\ net'[Len(net')].body = markups)]_vars

\* C13: when the page unloads with dirty true or saveStatus 'saving' or
\* 'error', a keepalive PUT /markups with the current list and scope is sent.
C13_UnloadFlushes ==
  [][backPc # "left" /\ backPc' = "left"
       /\ (dirty' \/ saveStatus' = "saving" \/ saveStatus' = "error")
       => /\ net' # <<>>
          /\ net'[Len(net')].origin = "unload"
          /\ net'[Len(net')].kind = "PUT"
          /\ net'[Len(net')].body = markups
          /\ net'[Len(net')].scope = currentLinked]_vars

SavePdfOps == {"savePdf", "performSavePdf"}

\* C11: performSavePdf (and the Save PDF handler), when dirty or in status
\* error, sends a PUT /markups with the flatten skipped and no POST; a flatten
\* POST is added only when a PUT succeeded or when there was nothing to save;
\* when the PUT fails no POST is added and the promise of performSavePdf
\* rejects with the message of the failed save.
C11_SavePdfSavesFirst ==
  [][/\ (hist'.op \in SavePdfOps /\ Sends
           => /\ Len(net') = Len(net) + 1
              /\ net'[Len(net')].kind = "PUT"
              /\ net'[Len(net')].skip
              /\ net'[Len(net')].body = markups)
     /\ (Cardinality(InFlight("POST")') > Cardinality(InFlight("POST"))
           => hist'.op = "putOk" \/ (hist'.op \in SavePdfOps /\ ~Sends))
     /\ (hist'.op = "putFail"
           => /\ Cardinality(InFlight("POST")') <= Cardinality(InFlight("POST"))
              /\ (\E i \in 1..Len(net) :
                     net[i].cont = "pdfsave" /\ net' = Without(net, i))
                   => hist'.thrown = lastSaveError' /\ hist'.thrown # "")]_vars

\* C11 witness: performSavePdf was called with something to save, the PUT
\* failed, its promise rejected and no flatten is in flight.
C11_Witness ==
  /\ hist.op = "putFail"
  /\ hist.thrown = "rejected"
  /\ saveStatus = "error"
  /\ InFlight("POST") = {}

\* C9: when the scope of the page's config is not a link of the document,
\* the session scope after loading is document-level, and a PUT /markups
\* sent afterwards carries the document-level scope.
C9_InvalidScopeReset ==
  config # DocLevel /\ ~InSeq(config, docLinked) /\ Loaded
    => /\ currentLinked = DocLevel
       /\ \A i \in InFlight("PUT") : net[i].scope = DocLevel

\* C10: every PUT /markups and every flatten POST carries the document-level
\* scope or a link of the document; once the validation fetch has given no
\* links, the session scope is document-level.
C10_RequestsCarryValidScope ==
  /\ \A i \in InFlight("PUT") \cup InFlight("POST") :
       net[i].scope = DocLevel \/ InSeq(net[i].scope, docLinked)
  /\ (Loaded /\ linkedOptions = <<>> => currentLinked = DocLevel)

\* C14: decimatePoints returns at most maxPts points, and returns the list
\* it was given, unchanged, when that list has at most maxPts points.
C14_DecimationBound ==
  probe.fn = "decimatePoints" /\ probe.done
    => /\ Len(probe.out) <= probe.args[2]
       /\ (Len(probe.args[1]) <= probe.args[2] => probe.out = probe.args[1])

\* C14 witness: a list longer than a target of at least two was decimated
\* to exactly the target count.
C14_Witness ==
  /\ probe.fn = "decimatePoints" /\ probe.done
  /\ probe.args[2] >= 2
  /\ Len(probe.args[1]) > probe.args[2]
  /\ Len(probe.out) = probe.args[2]

\* the rectangle of doubles a call of normalizeBounds was given
GivenRect ==
  [x |-> FromInt(probe.args[1]), y |-> FromInt(probe.args[2]),
   width |-> FromInt(probe.args[3]), height |-> FromInt(probe.args[4])]

GestureOps == {"comment", "text", "ink", "highlight"}

\* C16: the bounds of a markup created by a gesture lie within the page:
\* x, y, width and height are within [0, 1] and so are x + width and
\* y + height.
C16_GestureBoundsInPage ==
  probe.fn \in GestureOps /\ probe.done
    => LET b == probe.out
       IN /\ b.x \in 0..Unit /\ b.y \in 0..Unit
          /\ b.width \in 0..Unit /\ b.height \in 0..Unit
          /\ b.x + b.width <= Unit /\ b.y + b.height <= Unit

\* C17: once a list with one markup of each variant is loaded into the
\* backend of its page (drawn in the overlay, or built as the objects of the
\* page's canvas), what the backend serializes is that list.
C17_BackendRoundTrip ==
  /\ Len(markups) = 4
  /\ \/ backend = "overlay" /\ 0 \in DOMAIN overlayDom
     \/ backend = "canvas" /\ 0 \in DOMAIN fabricCanvases
  => Snapshot(backend, markups, fabricCanvases) = markups

\* C18: state.scale is always within [0.5, 3]; when the document has just
\* been parsed, it is the stored zoom if that is a number within [0.5, 3]
\* and the default otherwise.
C18_ScaleWithinBounds ==
  /\ scale \in MinScale..MaxScale
  /\ hist.op = "file" /\ pdfDoc
       => IF savedZoom.set /\ savedZoom.num /\ savedZoom.v \in MinScale..MaxScale
          THEN scale = savedZoom.v
          ELSE scale = DefaultScale

\* C18 witness: a zoom beyond the bounds was stored, the default was kept at
\* load, and zooming in has reached the upper bound.
C18_Witness ==
  /\ hist.op = "zoomIn"
  /\ pdfDoc
  /\ scale = MaxScale
  /\ savedZoom = Stored(MaxScale)

\* C19: once the container shows the iframe fallback it keeps showing it,
\* and no renderPdf is started.
C19_FallbackIsTerminal ==
  [][view = "iframe" => view' = "iframe" /\ rebuilds' <= rebuilds]_vars

\* C20: a failed POST /save-pdf changes neither saveStatus nor dirty: after
\* a successful markup save they stay 'saved' and false.
C20_FlattenFailureKeepsSave ==
  [][hist'.op = "postFail" /\ Len(net') < Len(net)
       => saveStatus' = saveStatus /\ dirty' = dirty]_vars

\* C20 witness: the markups were saved, the flatten that followed failed,
\* and the session is still saved and clean.
C20_Witness ==
  /\ hist.op = "postFail"
  /\ hist.thrown = "save failed"
  /\ saveStatus = "saved"
  /\ ~dirty

\* C21: performSave called (directly or by the debounce timer) while dirty
\* is false and saveStatus is not 'error' sends no request, leaves
\* saveStatus, dirty and lastSaveError unchanged, and the promise it returns
\* is resolved with true.
C21_CleanSaveIsNoOp ==
  [][/\ (hist'.op \in {"performSave", "timer"} /\ ~dirty
            /\ saveStatus # "error"
           => /\ net' = net
              /\ saveStatus' = saveStatus
              /\ dirty' = dirty
              /\ lastSaveError' = lastSaveError)
     /\ (hist'.op = "performSave" /\ ~dirty /\ saveStatus # "error"
           => probe'.fn = "performSave" /\ probe'.done /\ probe'.out)]_vars

\* C21 witness: performSave was called on a saved, clean session and
\* resolved with true at once, nothing in flight.
C21_Witness ==
  /\ hist.op = "performSave"
  /\ probe.fn = "performSave" /\ probe.done /\ probe.out
  /\ ~dirty /\ saveStatus = "saved"
  /\ net = <<>>

\* C22: a successful restore calls loadMarkups for the scope of the session
\* (a GET is sent), and neither the restore nor the reload changes the undo
\* stack, the redo stack or dirty.
C22_RestoreReloadsOutsideUndo ==
  [][/\ (hist'.op = "restoreOk"
           => /\ net' # <<>>
              /\ net'[Len(net')].kind = "GET"
              /\ net'[Len(net')].scope = currentLinked
              /\ net'[Len(net')].origin = "restore")
     /\ (hist'.op \in {"restore", "restoreOk", "loaded", "loadFailed"}
           => /\ undoStack' = undoStack
              /\ redoStack' = redoStack
              /\ dirty' = dirty)]_vars

\* C22 witness: after an edit was saved, a version was restored and the
\* list of the server replaced the edited one; the undo stack still holds
\* the one snapshot of the edit and the session is clean.
C22_Witness ==
  /\ hist.op = "loaded"
  /\ Len(undoStack) = 1
  /\ ~dirty /\ saveStatus = "saved"
  /\ markups \in SessionLists
  /\ \A k \in 1..Len(markups) : markups[k].id \notin Ids

\* C23: when the markup fetch fails or its body is malformed, loadMarkups
\* installs the empty list and changes none of dirty, saveStatus and the
\* pending save timer.
C23_FailedLoadInstallsEmpty ==
  [][hist'.op = "loadFailed" /\ Len(net') < Len(net)
       => /\ markups' = <<>>
          /\ dirty' = dirty
          /\ saveStatus' = saveStatus
          /\ saveTimeout' = saveTimeout]_vars

\* C23 witness: a fetch failed while an edit was waiting for its timer; the
\* list is empty, the session still dirty and the timer still pending.
C23_Witness ==
  /\ hist.op = "loadFailed"
  /\ markups = <<>>
  /\ dirty /\ saveTimeout = 1
  /\ undoStack # <<>> /\ Last(undoStack) # <<>>

\* C24: undo() and redo() create no extra undo entry, and the callbacks
\* fired while the installed list is propagated into the canvases neither
\* push a snapshot nor re-serialize a page into the canonical list: the
\* undo stack moves by exactly the one entry popped or pushed, and the list
\* is the installed snapshot, the same as before the propagation.
C24_InstallSuppressesCallbacks ==
  [][/\ (hist'.op = "undo" /\ undoStack # <<>>
           => /\ undoStack' = Front(undoStack)
              /\ LoadMarkupsIntoFabric(Last(undoStack), fabricCanvases).m
                   = Last(undoStack)
              /\ markups' = Last(undoStack))
     /\ (hist'.op = "redo" /\ redoStack # <<>>
           => /\ Front(undoStack') = undoStack
              /\ LoadMarkupsIntoFabric(Last(redoStack), fabricCanvases).m
                   = Last(redoStack)
              /\ markups' = Last(redoStack))]_vars

\* C25: saveStatus never returns to 'idle', and it becomes 'saved' or
\* 'error' only from 'saving' and only in the step of a PUT /markups
\* response.
C25_SaveStatusMachine ==
  [][saveStatus' # saveStatus
       => /\ saveStatus' # "idle"
          /\ (saveStatus' \in {"saved", "error"}
                => /\ saveStatus = "saving"
                   /\ hist'.op \in {"putOk", "putFail"})]_vars

\* out is a subsequence of pts: its elements are elements of pts at strictly
\* increasing positions.
IsSubsequence(out, pts) ==
  \E f \in [1..Len(out) -> 1..Len(pts)] :
    /\ \A k \in 1..Len(out) : out[k] = pts[f[k]]
    /\ \A j, k \in 1..Len(out) : j < k => f[j] < f[k]

\* C26: when decimatePoints resamples (more points than the target count,
\* the count at least 1), the result starts with the first input point, ends
\* with the last one and is a subsequence of the input.
C26_ResampleKeepsEnds ==
  (/\ probe.fn = "decimatePoints" /\ probe.done
   /\ probe.args[2] >= 1
   /\ Len(probe.args[1]) > probe.args[2])
    => /\ probe.out # <<>>
       /\ probe.out[1] = probe.args[1][1]
       /\ Last(probe.out) = Last(probe.args[1])
       /\ IsSubsequence(probe.out, probe.args[1])

\* C27: when the last rebuild started by a zoom has finished building, no
\* page is rendered, there is one placeholder per page, and the width and
\* height of every descriptor are those of its page at the current scale.
C27_RebuildMatchesScale ==
  hist.op \in {"rebuilt", "rebuildThrew"} /\ rebuilds = 0
    => /\ Len(pageInfos) = numPages
       /\ \A j \in 1..Len(pageInfos) :
            /\ ~pageInfos[j].rendered
            /\ pageInfos[j].dim = Viewport(pageSize, j, scale)

\* The distance of a page from the span of the visible pages: 0 inside it.
SpanDistance(idx, visible) ==
  IF idx < SeqMin(visible) THEN SeqMin(visible) - idx
  ELSE IF idx > SeqMax(visible) THEN idx - SeqMax(visible)
  ELSE 0

\* The first rendered page at the greatest distance from the span.
FurthestRendered(infos, visible) ==
  LET rendered == GetRenderedPageIndices(infos)
  IN rendered[CHOOSE k \in 1..Len(rendered) :
       /\ \A j \in 1..Len(rendered) :
            SpanDistance(rendered[j], visible)
              <= SpanDistance(rendered[k], visible)
       /\ \A j \in 1..(k - 1) :
            SpanDistance(rendered[j], visible)
              < SpanDistance(rendered[k], visible)]

\* C28: when a scroll makes a page visible that is not rendered, with the
\* rendered pages at capacity the rendered page furthest from the span of
\* the visible pages (the first one on ties) is evicted; below capacity no
\* page is evicted.
C28_EvictsFurthestFromVisible ==
  [][(/\ hist'.op = "scroll"
      /\ \E k \in 1..Len(Window(viewTop')) :
           ~pageInfos[Window(viewTop')[k] + 1].rendered)
       => IF RenderedCount < PAGE_CACHE_SIZE
          THEN \A i \in 1..Len(pageInfos) :
                 pageInfos[i].rendered => pageInfos'[i].rendered
          ELSE ~pageInfos'[FurthestRendered(pageInfos, Window(viewTop'))
                            + 1].rendered]_vars

\* C29: the page evictFurthestFromVisible chooses is in rendered state; an
\* eviction changes the descriptor of a rendered page only, so a page whose
\* render is in flight is left as it is and evictPage on a page that is not
\* rendered changes nothing; the evicted page is a placeholder of the same
\* size, without canvas and overlay.
C29_EvictsRenderedOnly ==
  [][hist'.op \in {"evictFurthest", "evictPage"}
       => /\ (hist'.op = "evictFurthest" /\ probe'.out # NoPage
                => pageInfos[probe'.out + 1].rendered)
          /\ Len(pageInfos') = Len(pageInfos)
          /\ \A i \in 1..Len(pageInfos) :
               \/ /\ pageInfos'[i] = pageInfos[i]
                  /\ ((i - 1) \in DOMAIN overlayDom'
                        <=> (i - 1) \in DOMAIN overlayDom)
               \/ /\ pageInfos[i].rendered
                  /\ probe'.out = i - 1
                  /\ pageInfos'[i] = [rendered |-> FALSE,
                                      dim |-> pageInfos[i].dim]
                  /\ (i - 1) \notin DOMAIN overlayDom']_vars

\* C29 witness: with the rendered pages at capacity and a render in flight
\* in the viewport, the page furthest from the viewport was chosen and is
\* now a placeholder without overlay; the page in flight is as it was.
C29_Witness ==
  /\ hist.op = "evictFurthest"
  /\ probe.out # NoPage
  /\ ~pageInfos[probe.out + 1].rendered
  /\ probe.out \notin DOMAIN overlayDom
  /\ renderTasks[probe.out] = 0
  /\ \E p \in 0..(numPages - 1) :
       renderTasks[p] > 0 /\ ~pageInfos[p + 1].rendered /\ InSeq(p, probe.args[1])

\* C30: whenever the observer of a page structure is in place, and so
\* whenever a page of it is rendered or has a render in flight, the
\* structure has a descriptor with computed width and height for every
\* page of the document, and the build that has just created the observer
\* had every one of them in pageDimensions before it did.
C30_DimensionsBeforeObserver ==
  LET complete ==
        /\ Len(pageInfos) = numPages
        /\ \A i \in 1..numPages :
             /\ pageInfos[i].dim.box \in Boxes
             /\ pageInfos[i].dim.scale \in MinScale..MaxScale
  IN /\ view = "pages" => complete
     /\ \A p \in 0..(numPages - 1) :
          \/ renderTasks[p] > 0
          \/ (p + 1 <= Len(pageInfos) /\ pageInfos[p + 1].rendered)
          => view = "pages" /\ complete
     /\ hist.op = "rebuilt"
          => /\ ~observed
             /\ Len(pageDimensions) >= numPages
             /\ \A i \in 1..numPages : pageInfos[i].dim = pageDimensions[i]

\* C30 witness: after a zoom of a document with pages of two sizes all
\* builds have finished, and a page of the rebuilt structure is rendered at
\* the new scale.
C30_Witness ==
  /\ pdfDoc /\ view = "pages" /\ observed
  /\ rebuilds = 0 /\ building = <<>>
  /\ scale # DefaultScale
  /\ pageSize[1] # pageSize[2]
  /\ hist.op = "rendered"
  /\ \E p \in 0..(numPages - 1) :
       pageInfos[p + 1].rendered /\ pageInfos[p + 1].dim.scale = scale

\* C31: a step taken in view mode that is not the Edit click leaves the
\* canonical list as it was: no gesture creates, modifies or deletes a
\* markup while isEditMode is false.
C31_ViewModeIsReadOnly ==
  [][~isEditMode /\ ~isEditMode' => markups' = markups]_vars

C35_PutCarriesItsScope ==
  [][Len(net') > Len(net) /\ net'[Len(net')].kind = "PUT"
       => listScope = net'[Len(net')].scope]_vars

\* C36: with status saved, nothing dirty and no PUT in flight, the list the
\* server holds for the scope of the session is the canonical list.
C36_SavedMeansStored ==
  saveStatus = "saved" /\ ~dirty
    /\ (\A i \in 1..Len(net) : net[i].kind # "PUT")
    => server[currentLinked] = markups

----------------------------------------------------------------------------
\* A one-page document loaded with a comment, in the overlay backend, its
\* list an array of one object.
InitHeap ==
  /\ numPages = SessionDocPages
  /\ markups = <<Markup("m0", 0, "comment", Null, "note")>>
  /\ backend = "overlay"
  /\ config = DocLevel /\ currentLinked = DocLevel /\ docLinked = <<>>
  /\ loadPc = "ready"
  /\ InitPage([i \in 1..numPages |-> "portrait"])
  /\ linkedOptions = <<>>
  /\ isEditMode = TRUE
  /\ popover = Null
  /\ server = <<>>
  /\ listScope = DocLevel
  /\ captured = [u |-> <<>>, r |-> <<>>]
  /\ heap = [arr |-> (1 :> <<1>>), rec |-> (1 :> markups[1]), m |-> 1,
             u |-> <<>>, r |-> <<>>, popped |-> FALSE]
  /\ drawingPathPoints = NoPath
  /\ raster = NoRaster
  /\ probe = NoCall

NextHeap ==
  \/ \E id \in Ids : \E m \in NewMarkups(id, 0) : HeapCreate(m)
  \/ \E id \in Ids \cup {"m0"} : HeapDelete(id)
  \/ \E id \in Ids \cup {"m0"}, text \in {"edited", "final"} : HeapEditText(id, text)
  \/ HeapUndo
  \/ HeapRedo

SpecHeap == InitHeap /\ [][NextHeap]_vars

\* C33: no entry of a stack is the array of the canonical list or holds
\* one of its objects, and an entry that stays on its stack through a step
\* is the same list after the step as before it.
C33_SnapshotsAreImmutable ==
  [][/\ \A k \in 1..Min2(Len(undoStack), Len(undoStack')) :
          undoStack'[k] = undoStack[k]
     /\ \A k \in 1..Min2(Len(redoStack), Len(redoStack')) :
          redoStack'[k] = redoStack[k]
     /\ LET h == heap'
            live == {h.arr[h.m][k] : k \in 1..Len(h.arr[h.m])}
            entries == {h.u[k] : k \in 1..Len(h.u)}
                         \cup {h.r[k] : k \in 1..Len(h.r)}
        IN \A a \in entries :
             /\ a # h.m
             /\ \A k \in 1..Len(h.arr[a]) : h.arr[a][k] \notin live]_vars

\* C33 witness: after an undo installed a popped snapshot, a popover
\* changed the text of a comment of the list in place; the snapshot taken
\* before the edit still has the old text.
C33_Witness ==
  /\ hist.op = "edit"
  /\ heap.popped
  /\ Len(undoStack) = 2
  /\ markups[1].id = "m0" /\ markups[1].text = "edited"
  /\ Last(undoStack)[1].id = "m0" /\ Last(undoStack)[1].text = "note"

----------------------------------------------------------------------------
\* A one-page document with no markups, in either backend; strokes of up
\* to MaxStroke pointer positions.
InitInk ==
  /\ numPages = SessionDocPages
  /\ markups = <<>>
  /\ backend \in {"overlay", "canvas"}
  /\ config = DocLevel /\ currentLinked = DocLevel /\ docLinked = <<>>
  /\ loadPc = "ready"
  /\ InitState

NextInk ==
  \/ ObserveInitial
  \/ \E p \in 0..(numPages - 1) : RenderPageDone(p)
  \/ \E p \in 0..(numPages - 1) : InitFabricForPage(p)
  \/ \E p \in 0..(numPages - 1) : InkOverlayDown(p)
  \/ InkOverlayMove
  \/ \E id \in Ids : InkOverlayFinish(id)
  \/ \E p \in 0..(numPages - 1) : InkCanvasDown(p)
  \/ InkCanvasMove
  \/ \E id \in Ids : InkCanvasUp(id)
  \/ InkCanvasOut

SpecInk == InitInk /\ [][NextInk]_vars

\* C34: every ink markup of the canonical list has at most 500 points,
\* whichever backend created it or serialized it again.
C34_InkPointLimit ==
  \A i \in 1..Len(markups) :
    markups[i].type = "ink" => Len(markups[i].points) <= InkLimit

----------------------------------------------------------------------------
\* The page's config as any page can hand it over: window.__PDF_CONFIG__
\* with both parts of the scope, none, or only one of them.
HalfConfigs == {[t |-> "task", i |-> Null], [t |-> Null, i |-> "3"]}

InitConfig ==
  /\ numPages = SessionDocPages
  /\ markups = <<>>
  /\ backend = "overlay"
  /\ config \in Configs \cup HalfConfigs
  /\ currentLinked = config
  /\ docLinked \in LinkLists
  /\ loadPc = "options"
  /\ linkedOptions = <<>>
  /\ InitPage([i \in 1..numPages |-> "portrait"])
  /\ isEditMode = TRUE
  /\ popover = Null
  /\ server = StoredLists
  /\ listScope = currentLinked
  /\ captured = EmptyHistory
  /\ heap = NoHeap
  /\ drawingPathPoints = NoPath
  /\ raster = NoRaster
  /\ probe = NoCall

SpecConfig == InitConfig /\ [][NextScope]_vars

\* C37: once loadLinkedOptions has run, currentLinkedType and
\* currentLinkedId are both null or both set, whatever the page's config.
C37_ScopeIsPaired ==
  Loaded => (currentLinked.t = Null <=> currentLinked.i = Null)

----------------------------------------------------------------------------
\* A loaded one-page document, in either backend, its list the one the
\* server holds, nothing edited; gestures that all end without a markup.
InitCancel ==
  /\ numPages = SessionDocPages
  /\ markups \in ServerLists
  /\ backend \in {"overlay", "canvas"}
  /\ config = DocLevel /\ currentLinked = DocLevel /\ docLinked = <<>>
  /\ loadPc = "ready"
  /\ linkedOptions = <<>>
  /\ InitPage([i \in 1..numPages |-> "portrait"])
  /\ isEditMode = TRUE
  /\ popover = Null
  /\ server = [s \in {DocLevel} |-> markups]
  /\ listScope = DocLevel
  /\ captured = EmptyHistory
  /\ heap = NoHeap
  /\ drawingPathPoints = NoPath
  /\ raster = NoRaster
  /\ probe = NoCall

NextCancel ==
  \/ ObserveInitial
  \/ \E p \in 0..(numPages - 1) : RenderPageDone(p)
  \/ \E p \in 0..(numPages - 1) : InitFabricForPage(p)
  \/ \E p \in 0..(numPages - 1) :
       OverlayHighlightSmall(p, <<10, 10>>, <<500, 10>>)
  \/ \E p \in 0..(numPages - 1) : OverlayPromptDown(p)
  \/ \E p \in 0..(numPages - 1) : InkOverlayDown(p)
  \/ \E id \in Ids : InkOverlayFinish(id)
  \/ \E p \in 0..(numPages - 1), id \in Ids : CanvasMouseDown(p, id, Red)
  \/ CanvasMouseUp(FALSE)
  \/ \E p \in 0..(numPages - 1) : CanvasPromptDown(p)
  \/ PromptCancel
  \/ \E p \in 0..(numPages - 1) : InkCanvasDown(p)
  \/ \E id \in Ids : InkCanvasUp(id)
  \/ InkCanvasOut
  \/ TimerFires

SpecCancel == InitCancel /\ [][NextCancel]_vars

CancelOps == {"dragNone", "promptCancel", "inkNone", "inkOut", "createEnd"}

\* C38: when a gesture has ended without a markup (a highlight drag under
\* 5 pixels, a cancelled prompt, a stroke of fewer than 2 points), the
\* list, the two stacks and dirty are what they were before it, in either
\* backend; and no state of such a gesture is ever sent by the autosave.
C38_FailedGestureChangesNothing ==
  /\ hist.op \in CancelOps =>
       /\ markups = server[DocLevel]
       /\ undoStack = <<>> /\ redoStack = <<>>
       /\ ~dirty
  /\ \A i \in 1..Len(net) : net[i].kind # "PUT"

\* C39: undo() called with an empty undo stack, and redo() called with an
\* empty redo stack, change nothing: not the list, not a stack, not dirty,
\* not the pending save timer.
C39_EmptyStackIsNoOp ==
  [][(hist'.op = "undo" /\ undoStack = <<>>)
       \/ (hist'.op = "redo" /\ redoStack = <<>>)
     => /\ markups' = markups
        /\ undoStack' = undoStack /\ redoStack' = redoStack
        /\ dirty' = dirty /\ saveTimeout' = saveTimeout
        /\ fabricCanvases' = fabricCanvases]_vars

\* C39 witness: Undo was clicked in a session with a loaded list and
\* nothing to undo; nothing is on either stack and nothing is to be saved.
C39_Witness ==
  /\ hist.op = "undo"
  /\ markups # <<>>
  /\ undoStack = <<>> /\ redoStack = <<>>
  /\ ~dirty /\ saveTimeout = 0

----------------------------------------------------------------------------
\* A loaded one-page document, zoomed in and out while its page renders.
InitRaster ==
  /\ numPages = SessionDocPages
  /\ markups = <<>>
  /\ backend = "overlay"
  /\ config = DocLevel /\ currentLinked = DocLevel /\ docLinked = <<>>
  /\ loadPc = "ready"
  /\ linkedOptions = <<>>
  /\ InitPage([i \in 1..numPages |-> "portrait"])
  /\ isEditMode = TRUE
  /\ popover = Null
  /\ server = <<>>
  /\ listScope = DocLevel
  /\ captured = EmptyHistory
  /\ heap = NoHeap
  /\ drawingPathPoints = NoPath
  /\ raster = EmptyRaster(numPages)
  /\ probe = NoCall

NextRaster ==
  \/ ZoomIn
  \/ ZoomOut
  \/ \E b \in 1..MaxRebuilds, ok \in BOOLEAN : RasterRebuildDone(b, ok)
  \/ ObserveInitial
  \/ \E p \in 0..(numPages - 1) : RenderGetPageResolved(p)
  \/ \E p \in 0..(numPages - 1), k \in 1..MaxInFlight : RenderPageInstall(p, k)

SpecRaster == InitRaster /\ [][NextRaster]_vars

\* C40: every rendered page has a canvas and an overlay of the width and
\* height of its descriptor, also when its render started or completed
\* while a change of scale was rebuilding the structure.
C40_RasterMatchesDescriptor ==
  \A j \in 1..Len(pageInfos) :
    pageInfos[j].rendered
      => /\ (j - 1) \in DOMAIN raster.canvas
         /\ raster.canvas[j - 1] = pageInfos[j].dim

====
